---- MODULE Spec2Model ----
(***************************************************************************)
(* A model of dvhb_hybrid's asynchronous record engine (amodels.py):       *)
(*   - the cached aggregates Model.get_count / Model.get_sum over one      *)
(*     table and one shared cache store (SpecAgg, SpecKey);                *)
(*   - the record type registry Model.models, AppModels and the            *)
(*     many-to-many resolver factory (SpecReg);                            *)
(*   - Model.save against the table (SpecSave);                            *)
(*   - update_increment (SpecInc), update_json (SpecJson), get_or_create   *)
(*     (SpecGoc), get_dict (SpecDict), ManyToManyRelationship (SpecRel),   *)
(*     the connection wrappers (SpecPool), validate_and_save (SpecVal),    *)
(*     the aggregates on bounded connection pools (SpecLock).              *)
(* Every await of the code is one step of the model, so calls interleave   *)
(* exactly where the coroutines can be suspended.                          *)
(***************************************************************************)
EXTENDS Integers, Sequences, FiniteSets, TLC

VARIABLES
    table,      \* the backing table: primary key -> row, or NoRow
    cache,      \* the cache store: key -> [val, ttl], keys present only
    call,       \* per caller: the position and locals of its aggregate call
    variant,    \* which AppModels is imported: amodels.py or the package
    models,     \* Model.models: normalized name -> type object (0: absent)
    types,      \* the type objects created so far, by identity
    appm,       \* per application, the attributes set on its AppModels
    last,       \* the outcome of the latest registry access
    klass,      \* the record type's class attributes (fields_*, validators)
    inst,       \* a record instance: field name -> value, fields present only
    sv,         \* the position and locals of the save call on inst
    rows,       \* the further tables of a scenario (join rows, targets)
    task,       \* per caller: the position and locals of its engine call
    objs,       \* per caller: the record instance it holds in memory
    pool,       \* the connection pools: who has borrowed what
    hist        \* what the calls so far were asked to do and gave back

aggVars == <<table, cache, call>>

regVars == <<variant, models, types, appm, last>>

saveVars == <<klass, inst, sv>>

extVars == <<rows, task, objs, pool, hist>>

vars == <<table, cache, call, variant, models, types, appm, last,
          klass, inst, sv, rows, task, objs, pool, hist>>

----------------------------------------------------------------------------
(* Bounds of the model.                                                    *)

MaxPk == 2          \* primary keys 1..MaxPk
MaxExpire == 1      \* expire / delay arguments 0..MaxExpire
MaxDepth == 4       \* nested __getattr__ calls before RecursionError
MaxTypes == 7       \* type objects after which no further access starts
MaxDeclared == 2    \* class statements for one name, start-up included

PKs == 1..MaxPk
Vals == {1, 2}      \* column values: one the predicate x = 1 selects, one not
Procs == {"p1", "p2"}

\* Optional values: None is the empty set, Some(v) the singleton.
None == {}
Some(v) == {v}
The(s) == CHOOSE v \in s : TRUE

\* A stored row holds the non-key columns x and y: a value of Vals, or
\* Null where the INSERT gave none.
Null == 0
Cols == {"x", "y"}
NoRow == [x |-> -1, y |-> -1]
Row(vx, vy) == [x |-> vx, y |-> vy]

\* Model.primary_key
primary_key == "id"
Fields == {primary_key} \cup Cols

\* The save call when none is running, on an empty instance of a type
\* that declares neither fields_permanent nor fields_readonly.
IdleSave ==
    [pc |-> "idle", fields |-> {}, saved |-> FALSE, path |-> "none",
     ret |-> None, err |-> ""]

SaveIdle ==
    /\ klass = [fields_permanent |-> {}, fields_readonly |-> {}]
    /\ inst = <<>>
    /\ sv = IdleSave

\* The state of the scenarios that are not running.
ExtIdle ==
    /\ rows = <<>>
    /\ task = <<>>
    /\ objs = <<>>
    /\ pool = <<>>
    /\ hist = <<>>

----------------------------------------------------------------------------
(* The record type registry.  Type objects are numbered in creation order; *)
(* 0 stands for the base class Model (as a base) and for "absent".         *)

AppIds == {1, 2}

\* utils.convert_class_name: the registry name of a class name.
convert_class_name(cname) ==
    CASE cname = "Book" -> "book"
      [] cname = "Tag" -> "tag"
      [] cname = "BookTag" -> "book_tag"
      [] OTHER -> "unknown"

RegNames == {"book", "tag", "book_tag", "unknown"}

\* The many-to-many factories _derive_from_django collects: Book.tags is
\* the forward field, Tag.books the reverse relation, both through BookTag.
RelTags == [name |-> "tags", through |-> "BookTag", target |-> "Tag"]
RelBooks == [name |-> "books", through |-> "BookTag", target |-> "Book"]

TypeObj(cname, base, app, rels) ==
    [name |-> cname, base |-> base, app |-> app, rels |-> rels,
     resolvers |-> {}]

NoAccess ==
    [form |-> "none", app |-> 0, item |-> "", outcome |-> "none", val |-> 0,
     rebound |-> FALSE, registered |-> FALSE, bound |-> 0]

\* The registry part of the state when nothing is being bound.
RegIdle ==
    /\ variant = "module"
    /\ models = [n \in RegNames |-> 0]
    /\ types = <<>>
    /\ appm = [a \in AppIds |-> [n \in RegNames |-> 0]]
    /\ last = NoAccess

\* The state a binding works on, threaded through its nested calls.
RegState == [models |-> models, types |-> types, appm |-> appm,
             rebound |-> FALSE]

\* A call returns a value, or raises.
Ok(st, v) == [st |-> st, kind |-> "ok", val |-> v]
Raise(st, k) == [st |-> st, kind |-> k, val |-> 0]

\* MetaModel.__new__: create the class and store it in Model.models under
\* its normalized name.  It runs for every class statement and for every
\* type(name, bases, attrs) call whose bases derive from Model.
MetaModel_new(st, cname, base, app, rels, resolvers) ==
    LET id == Len(st.types) + 1
        obj == [TypeObj(cname, base, app, rels) EXCEPT !.resolvers = resolvers]
    IN Ok([st EXCEPT !.types = Append(@, obj),
                     !.models[convert_class_name(cname)] = id], id)

\* (mutation of setattr_item: the bound type is not kept on the instance)
setattr_item_Forgotten(st, app, item, val) == st

\* setattr(self, item, sub_class) on the AppModels instance of `app`.
setattr_item(st, app, item, val) ==
    [st EXCEPT !.appm[app][item] = val,
               !.rebound = @ \/ st.appm[app][item] \notin {0, val}]

\* setattr(sub_class, k, resolver) on a bound type.
setattr_resolver(st, sub, k, resolver) ==
    [st EXCEPT !.types[sub].resolvers =
        {r \in @ : r.rel # k} \cup {[rel |-> k] @@ resolver}]

\* Model.factory of amodels/model.py: the specialization carries the
\* application; AppModels.__getattr__ attaches the resolvers afterwards.
factory_package(st, cls, app) ==
    MetaModel_new(st, st.types[cls].name, cls, app, st.types[cls].rels, {})

RECURSIVE getattr_m(_, _, _, _)
RECURSIVE AppModels_getattr(_, _, _, _)
RECURSIVE factory(_, _, _, _)
RECURSIVE BindInFactory(_, _, _, _, _, _)
RECURSIVE BindInFactory_next(_, _, _, _, _, _)
RECURSIVE BindInGetattr(_, _, _, _, _, _)
RECURSIVE BindInGetattr_next(_, _, _, _, _, _)
RECURSIVE getattr_bind(_, _, _, _, _)
RECURSIVE m2m_factory(_, _, _, _)
RECURSIVE m2m_through(_, _, _, _)
RECURSIVE m2m_create(_, _, _)
RECURSIVE m2m_target(_, _, _, _)

\* getattr(app.m, item): the instance attribute if set, else __getattr__.
\* hasattr(app.m, item) is this call with AttributeError read as False.
getattr_m(st, app, item, fuel) ==
    IF st.appm[app][item] # 0 THEN Ok(st, st.appm[app][item])
    ELSE AppModels_getattr(st, app, item, fuel)

\* return type(cls.__name__, (cls,), attrs), b being the outcome of
\* running the relationship factories.
factory_type(b, st, cls, app) ==
    IF b.kind # "ok" THEN b
    ELSE MetaModel_new(b.st, st.types[cls].name, cls, app,
                       st.types[cls].rels, b.val)

\* Model.factory of amodels.py: run every relationship factory, then
\* create the specialization with the resolvers as attributes.
factory(st, cls, app, fuel) ==
    factory_type(BindInFactory(st, app, st.types[cls].rels, 1, {}, fuel),
                 st, cls, app)

\* {k: v(app) for k, v in cls.relationships.items()}
BindInFactory(st, app, rels, i, acc, fuel) ==
    IF i > Len(rels) THEN Ok(st, acc)
    ELSE BindInFactory_next(m2m_factory(st, app, rels[i], fuel),
                            app, rels, i, acc, fuel)

\* One item of the comprehension, r being the outcome of v(app).
BindInFactory_next(r, app, rels, i, acc, fuel) ==
    IF r.kind # "ok" THEN r
    ELSE BindInFactory(r.st, app, rels, i + 1,
                       acc \cup {[rel |-> rels[i].name] @@ r.val}, fuel)

\* for k, v in model_cls.relationships.items(): setattr(sub_class, k, v(app))
BindInGetattr(st, app, sub, rels, i, fuel) ==
    IF i > Len(rels) THEN Ok(st, sub)
    ELSE BindInGetattr_next(m2m_factory(st, app, rels[i], fuel),
                            app, sub, rels, i, fuel)

\* One round of the loop, r being the outcome of v(self.app).
BindInGetattr_next(r, app, sub, rels, i, fuel) ==
    IF r.kind # "ok" THEN r
    ELSE BindInGetattr(setattr_resolver(r.st, sub, rels[i].name, r.val),
                       app, sub, rels, i + 1, fuel)

\* setattr(self, item, sub_class); return sub_class, f being the outcome
\* of model_cls.factory(self.app).
getattr_keep(f, app, item) ==
    IF f.kind # "ok" THEN f
    ELSE Ok(setattr_item(f.st, app, item, f.val), f.val)

\* return sub_class once the relationships loop, with outcome b, is over.
getattr_result(b, sub) == IF b.kind # "ok" THEN b ELSE Ok(b.st, sub)

\* The package variant after model_cls.factory(self.app) gave f: keep the
\* type on the instance, then attach the resolvers.
getattr_bind(f, app, item, rels, fuel) ==
    getattr_result(
        BindInGetattr(setattr_item(f.st, app, item, f.val), app, f.val,
                      rels, 1, fuel),
        f.val)

\* AppModels.__getattr__, in the variant imported.  fuel is the depth of
\* nested __getattr__ calls the interpreter still allows.
AppModels_getattr(st, app, item, fuel) ==
    IF fuel = 0 THEN Raise(st, "RecursionError")
    ELSE IF st.models[item] = 0 THEN Raise(st, "AttributeError")
    ELSE IF variant = "module"
    THEN getattr_keep(factory(st, st.models[item], app, fuel - 1),
                      app, item)
    ELSE getattr_bind(factory_package(st, st.models[item], app), app, item,
                      st.types[st.models[item]].rels, fuel - 1)

\* return cls(model, target_model, source_field, target_field)
m2m_resolver(t, m, rel) ==
    IF t.kind # "ok" THEN t
    ELSE Ok(t.st, [through |-> rel.through, model |-> m.val,
                   target_model |-> t.val])

\* m2m_factory(app) of ManyToManyRelationship.create_from_django_field.
m2m_factory(st, app, rel, fuel) ==
    m2m_through(getattr_m(st, app, convert_class_name(rel.through), fuel),
                app, rel, fuel)

\* The branch on hasattr(app.m, model_name), h being the outcome of the
\* attribute lookup: hasattr reads AttributeError as False and lets any
\* other exception through.
m2m_through(h, app, rel, fuel) ==
    IF h.kind = "RecursionError" THEN h
    ELSE m2m_target(
            IF h.kind = "ok"
            THEN Ok(h.st, h.st.appm[app][convert_class_name(rel.through)])
            ELSE m2m_create(MetaModel_new(h.st, rel.through, 0, 0, <<>>, {}),
                            app, fuel),
            app, rel, fuel)

\* model = model.factory(app) on the join type just created.
m2m_create(new, app, fuel) ==
    IF variant = "module" THEN factory(new.st, new.val, app, fuel)
    ELSE factory_package(new.st, new.val, app)

\* target_model = getattr(app.m, target_model_name), m being the join type.
m2m_target(m, app, rel, fuel) ==
    IF m.kind # "ok" THEN m
    ELSE m2m_resolver(
            getattr_m(m.st, app, convert_class_name(rel.target), fuel),
            m, rel)

Outcome(form, app, item, kind, val, st) ==
    [form |-> form, app |-> app, item |-> item, outcome |-> kind,
     val |-> val, rebound |-> st.rebound,
     registered |-> models[item] # 0, bound |-> appm[app][item]]

Commit(st) ==
    /\ models' = st.models
    /\ types' = st.types
    /\ appm' = st.appm

\* app.m.<item>: attribute access on the AppModels of an application.
AppModels_attr(app, item) ==
    /\ Len(types) < MaxTypes
    /\ \E r \in {getattr_m(RegState, app, item, MaxDepth)} :
          /\ Commit(r.st)
          /\ last' = Outcome("attr", app, item,
                        IF r.kind = "ok" THEN "type" ELSE r.kind, r.val, r.st)
    /\ UNCHANGED <<variant, aggVars, saveVars, extVars>>

\* `return KeyError(item)`: on a miss __getitem__ hands the exception
\* object back as its value.
getitem_miss == "KeyErrorReturned"

\* app.m[item]: item access on the AppModels of an application.
AppModels_getitem(app, item) ==
    /\ Len(types) < MaxTypes
    /\ \E h \in {getattr_m(RegState, app, item, MaxDepth)} :
          /\ Commit(h.st)
          /\ last' = Outcome("item", app, item,
                        CASE h.kind = "ok" -> "type"
                          [] h.kind = "AttributeError" -> getitem_miss
                          [] OTHER -> h.kind,
                        IF h.kind = "ok" THEN h.st.appm[app][item] ELSE 0,
                        h.st)
    /\ UNCHANGED <<variant, aggVars, saveVars, extVars>>

\* A class statement executed after start-up declares (or re-declares) a
\* record type.
declare(cname) ==
    /\ Len(types) < MaxTypes
    /\ Cardinality({i \in 1..Len(types) :
            types[i].name = cname /\ types[i].base = 0}) < MaxDeclared
    /\ Commit(MetaModel_new(RegState, cname, 0, 0, <<>>, {}).st)
    /\ UNCHANGED <<variant, last, aggVars, saveVars, extVars>>

----------------------------------------------------------------------------
(* The database side of the aggregates.                                    *)

\* The predicates the callers pass: "all" is the empty *args of get_count.
Wheres == {"all", "x1"}

Matches(row, where) ==
    /\ row # NoRow
    /\ (where = "all" \/ (where = "x1" /\ row.x = 1))

MatchingPks(t, where) == {k \in PKs : Matches(t[k], where)}

RECURSIVE SumOver(_, _)
SumOver(t, ks) ==
    IF ks = {} THEN 0
    ELSE LET k == CHOOSE k \in ks : TRUE
         IN t[k].x + SumOver(t, ks \ {k})

\* SELECT count(*) FROM t [WHERE ...]: never null.
SqlCount(t, where) == Cardinality(MatchingPks(t, where))

\* SELECT sum(t.x) FROM t WHERE ...: null when no row matches.
SqlSum(t, where) ==
    IF MatchingPks(t, where) = {} THEN None
    ELSE Some(SumOver(t, MatchingPks(t, where)))

----------------------------------------------------------------------------
(* The cache store holds byte strings: redis.set(key, count) writes the    *)
(* decimal text of the number and int(...) parses what redis.get returns.  *)

DigitChars == <<"0", "1", "2", "3", "4", "5", "6", "7", "8", "9">>

RECURSIVE NatToStr(_)
NatToStr(n) ==
    IF n < 10 THEN <<DigitChars[n + 1]>>
    ELSE NatToStr(n \div 10) \o <<DigitChars[(n % 10) + 1]>>

\* str(count), as the cache client encodes the value it is given.
IntToStr(n) == IF n < 0 THEN <<"-">> \o NatToStr(-n) ELSE NatToStr(n)

DigitVal(c) == (CHOOSE i \in 1..10 : DigitChars[i] = c) - 1

RECURSIVE StrToNat(_)
StrToNat(s) ==
    IF Len(s) = 1 THEN DigitVal(s[1])
    ELSE 10 * StrToNat(SubSeq(s, 1, Len(s) - 1)) + DigitVal(s[Len(s)])

\* int(count) of a cached reply.
StrToInt(s) == IF s[1] = "-" THEN -StrToNat(Tail(s)) ELSE StrToNat(s)

----------------------------------------------------------------------------
(* Cache keys.                                                             *)

\* The applications a record type may be bound to.  bound = FALSE is the
\* unbound type (cls.app is None); named = FALSE an application object
\* without a name attribute.
App(b, n, nm) == [bound |-> b, named |-> n, name |-> nm]
UnboundApp == App(FALSE, FALSE, "")
NamelessApp == App(TRUE, FALSE, "")

\* The literal-bound text of the compiled statement.
CompileCount(where) ==
    IF where = "all" THEN "SELECT count(*) AS tbl_row_count FROM t"
    ELSE "SELECT count(*) AS tbl_row_count FROM t WHERE t.x = 1"

CompileSum(where) ==
    IF where = "all" THEN "SELECT sum(t.x) AS sum_1 FROM t WHERE true"
    ELSE "SELECT sum(t.x) AS sum_1 FROM t WHERE t.x = 1"

\* get_sum takes its predicate as a required argument.
SumWheres == {"x1"}

\* utils.get_hash: a fixed-length hexadecimal digest of the text.
get_hash(text) ==
    CASE text = CompileCount("all") -> "9a0364b9"
      [] text = CompileCount("x1") -> "1f3870be"
      [] text = CompileSum("all") -> "c4ca4238"
      [] text = CompileSum("x1") -> "e4da3b7f"
      [] OTHER -> "00000000"

\* `if not postfix`: None and the empty string both select the digest.
CountPostfix(postfix, where) ==
    IF postfix = "" THEN get_hash(CompileCount(where)) ELSE postfix

SumPostfix(postfix, where) ==
    IF postfix = "" THEN get_hash(CompileSum(where)) ELSE postfix

CountKey(app, postfix, where) ==
    (IF app.bound /\ app.named THEN app.name \o ":count:" ELSE "count:")
        \o CountPostfix(postfix, where)

SumKey(app, postfix, where) ==
    (IF app.bound /\ app.named THEN app.name \o ":aggregate:sum:"
     ELSE "aggregate:sum:")
        \o SumPostfix(postfix, where)

----------------------------------------------------------------------------
(* The cache store collaborator: get / set / expire, and the passing of    *)
(* time.  ttl = 0 is an entry without expiry; ttl > 0 the seconds left.    *)

NoTTL == 0

redis_get(c, key) == IF key \in DOMAIN c THEN Some(c[key].val) ELSE None

\* SET writes the encoded value and discards any expiry the key had.
redis_set(c, key, n) ==
    [k \in DOMAIN c \cup {key} |->
        IF k = key THEN [val |-> IntToStr(n), ttl |-> NoTTL] ELSE c[k]]

\* EXPIRE on a missing key changes nothing.
redis_expire(c, key, ttl) ==
    IF key \in DOMAIN c THEN [c EXCEPT ![key].ttl = ttl] ELSE c

\* One second passes: entries on their last second are dropped.
Elapse(c) ==
    [k \in {j \in DOMAIN c : c[j].ttl # 1} |->
        IF c[k].ttl = NoTTL THEN c[k] ELSE [c[k] EXCEPT !.ttl = @ - 1]]

----------------------------------------------------------------------------
(* Aggregate calls.  A caller is idle, or inside get_count / get_sum at    *)
(* one of its awaits: "get" (redis.get), "real" (the database scalar),     *)
(* "set" (redis.set), "expire" (redis.expire), and then "done".            *)

IdleCall ==
    [pc |-> "idle", op |-> "none", app |-> UnboundApp, where |-> "all",
     postfix |-> "", ttl |-> 0, key |-> "", raw |-> None, count |-> None,
     ret |-> None, hit |-> FALSE]

\* (mutation of CountBypassesCache: the expire == 0 test is lost)
CountBypassesCache_Never(expire) == FALSE

\* `if expire == 0: return await real_count()`
CountBypassesCache(expire) == expire = 0

\* (mutation of CacheHit: the cached reply is ignored)
CacheHit_Never(reply) == FALSE

\* `if count is not None: return int(count)`
CacheHit(reply) == reply # None

\* (mutation of SumReadsCache: the cache is read whatever delay is)
SumReadsCache_Always(delay) == TRUE

\* `if delay:` guards the cache read of get_sum.
SumReadsCache(delay) == delay # 0

\* `if count is None: count = 0 / elif delay:` the sum is stored only on
\* the elif branch.
SumStores(s, delay) == s # None /\ delay # 0

\* `if count is None: count = 0`
NormalizeSum(s) == IF s = None THEN 0 ELSE The(s)

get_count(p, app, where, postfix, expire) ==
    /\ call[p].pc = "idle"
    /\ call' = [call EXCEPT ![p] =
            [IdleCall EXCEPT
                !.op = "count", !.app = app, !.where = where,
                !.postfix = postfix, !.ttl = expire,
                !.key = IF CountBypassesCache(expire) THEN ""
                        ELSE CountKey(app, postfix, where),
                !.pc = IF CountBypassesCache(expire) THEN "real"
                       ELSE "get"]]
    /\ UNCHANGED <<table, cache, regVars, saveVars, extVars>>

get_count_get(p) ==
    /\ call[p].pc = "get" /\ call[p].op = "count"
    /\ LET reply == redis_get(cache, call[p].key)
       IN call' = [call EXCEPT ![p] =
            IF CacheHit(reply)
            THEN [@ EXCEPT !.raw = reply, !.hit = TRUE,
                           !.ret = Some(StrToInt(The(reply))),
                           !.pc = "done"]
            ELSE [@ EXCEPT !.raw = reply, !.pc = "real"]]
    /\ UNCHANGED <<table, cache, regVars, saveVars, extVars>>

real_count(p) ==
    /\ call[p].pc = "real" /\ call[p].op = "count"
    /\ LET n == SqlCount(table, call[p].where)
       IN call' = [call EXCEPT ![p] =
            IF CountBypassesCache(call[p].ttl)
            THEN [@ EXCEPT !.count = Some(n), !.ret = Some(n),
                           !.pc = "done"]
            ELSE [@ EXCEPT !.count = Some(n), !.pc = "set"]]
    /\ UNCHANGED <<table, cache, regVars, saveVars, extVars>>

get_count_set(p) ==
    /\ call[p].pc = "set" /\ call[p].op = "count"
    /\ cache' = redis_set(cache, call[p].key, The(call[p].count))
    /\ call' = [call EXCEPT ![p].pc = "expire"]
    /\ UNCHANGED <<table, regVars, saveVars, extVars>>

get_count_expire(p) ==
    /\ call[p].pc = "expire" /\ call[p].op = "count"
    /\ cache' = redis_expire(cache, call[p].key, call[p].ttl)
    /\ call' = [call EXCEPT ![p].ret = call[p].count, ![p].pc = "done"]
    /\ UNCHANGED <<table, regVars, saveVars, extVars>>

get_sum(p, app, where, postfix, delay) ==
    /\ call[p].pc = "idle"
    /\ call' = [call EXCEPT ![p] =
            [IdleCall EXCEPT
                !.op = "sum", !.app = app, !.where = where,
                !.postfix = postfix, !.ttl = delay,
                !.key = SumKey(app, postfix, where),
                !.pc = IF SumReadsCache(delay) THEN "get" ELSE "real"]]
    /\ UNCHANGED <<table, cache, regVars, saveVars, extVars>>

get_sum_get(p) ==
    /\ call[p].pc = "get" /\ call[p].op = "sum"
    /\ LET reply == redis_get(cache, call[p].key)
       IN call' = [call EXCEPT ![p] =
            IF CacheHit(reply)
            THEN [@ EXCEPT !.raw = reply, !.hit = TRUE,
                           !.ret = Some(StrToInt(The(reply))),
                           !.pc = "done"]
            ELSE [@ EXCEPT !.raw = reply, !.pc = "real"]]
    /\ UNCHANGED <<table, cache, regVars, saveVars, extVars>>

get_sum_scalar(p) ==
    /\ call[p].pc = "real" /\ call[p].op = "sum"
    /\ LET s == SqlSum(table, call[p].where)
           n == NormalizeSum(s)
       IN call' = [call EXCEPT ![p] =
            IF SumStores(s, call[p].ttl)
            THEN [@ EXCEPT !.count = Some(n), !.pc = "set"]
            ELSE [@ EXCEPT !.count = Some(n), !.ret = Some(n),
                           !.pc = "done"]]
    /\ UNCHANGED <<table, cache, regVars, saveVars, extVars>>

get_sum_set(p) ==
    /\ call[p].pc = "set" /\ call[p].op = "sum"
    /\ cache' = redis_set(cache, call[p].key, The(call[p].count))
    /\ call' = [call EXCEPT ![p].pc = "expire"]
    /\ UNCHANGED <<table, regVars, saveVars, extVars>>

get_sum_expire(p) ==
    /\ call[p].pc = "expire" /\ call[p].op = "sum"
    /\ cache' = redis_expire(cache, call[p].key, call[p].ttl)
    /\ call' = [call EXCEPT ![p].ret = call[p].count, ![p].pc = "done"]
    /\ UNCHANGED <<table, regVars, saveVars, extVars>>

\* Model.create as one INSERT ... RETURNING: the database picks a free key.
create(vx, vy) ==
    /\ \E k \in PKs :
          /\ table[k] = NoRow
          /\ table' = [table EXCEPT ![k] = Row(vx, vy)]
    /\ UNCHANGED <<cache, call, regVars, saveVars, extVars>>

\* Model.delete_where(pk): one DELETE statement.
delete_where(k) ==
    /\ table[k] # NoRow
    /\ table' = [table EXCEPT ![k] = NoRow]
    /\ UNCHANGED <<cache, call, regVars, saveVars, extVars>>

\* Time passes in the cache store.
Tick ==
    /\ \E k \in DOMAIN cache : cache[k].ttl # NoTTL
    /\ cache' = Elapse(cache)
    /\ UNCHANGED <<table, call, regVars, saveVars, extVars>>

----------------------------------------------------------------------------
(* SpecAgg: two callers of one application, each making one aggregate      *)
(* call, while rows are inserted and deleted and cache entries expire.     *)

AggApp == App(TRUE, TRUE, "a")
AggPostfixes == {"", "p"}

InitAgg ==
    /\ table = [k \in PKs |-> NoRow]
    /\ cache = <<>>
    /\ call = [p \in Procs |-> IdleCall]
    /\ RegIdle
    /\ SaveIdle
    /\ ExtIdle

NextAgg ==
    \/ \E p \in Procs, w \in Wheres, pf \in AggPostfixes, e \in 0..MaxExpire :
          get_count(p, AggApp, w, pf, e)
    \/ \E p \in Procs : get_count_get(p)
    \/ \E p \in Procs : real_count(p)
    \/ \E p \in Procs : get_count_set(p)
    \/ \E p \in Procs : get_count_expire(p)
    \/ \E p \in Procs, w \in SumWheres, pf \in AggPostfixes, d \in 0..MaxExpire :
          get_sum(p, AggApp, w, pf, d)
    \/ \E p \in Procs : get_sum_get(p)
    \/ \E p \in Procs : get_sum_scalar(p)
    \/ \E p \in Procs : get_sum_set(p)
    \/ \E p \in Procs : get_sum_expire(p)
    \/ \E v \in Vals : create(v, 1)
    \/ \E k \in PKs : delete_where(k)
    \/ Tick

SpecAgg == InitAgg /\ [][NextAgg]_vars

----------------------------------------------------------------------------
(* SpecReg: the record types of a start-up are declared, then the          *)
(* AppModels of two applications are accessed in any order.                *)

RECURSIVE DeclareAll(_, _)
DeclareAll(st, decls) ==
    IF decls = <<>> THEN st
    ELSE DeclareAll(
            MetaModel_new(st, Head(decls).name, 0, 0, Head(decls).rels,
                          {}).st,
            Tail(decls))

EmptyRegistry ==
    [models |-> [n \in RegNames |-> 0], types |-> <<>>,
     appm |-> [a \in AppIds |-> [n \in RegNames |-> 0]], rebound |-> FALSE]

\* What a start-up may declare: Book and Tag, each with or without its
\* many-to-many relationship, and the join type BookTag or not.
Schemas ==
    {<<[name |-> "Book", rels |-> rb], [name |-> "Tag", rels |-> rt]>> \o j :
        rb \in {<<>>, <<RelTags>>}, rt \in {<<>>, <<RelBooks>>},
        j \in {<<>>, <<[name |-> "BookTag", rels |-> <<>>]>>}}

InitReg ==
    /\ table = [k \in PKs |-> NoRow]
    /\ cache = <<>>
    /\ call = [p \in Procs |-> IdleCall]
    /\ variant \in {"module", "package"}
    /\ \E sch \in Schemas :
          LET st == DeclareAll(EmptyRegistry, sch)
          IN models = st.models /\ types = st.types /\ appm = st.appm
    /\ last = NoAccess
    /\ SaveIdle
    /\ ExtIdle

NextReg ==
    \/ \E a \in AppIds, n \in RegNames : AppModels_attr(a, n)
    \/ \E a \in AppIds, n \in RegNames : AppModels_getitem(a, n)
    \/ declare("Book")

SpecReg == InitReg /\ [][NextReg]_vars

----------------------------------------------------------------------------
(* Model.save.  Its awaits are the existence check (_get_one) and the      *)
(* INSERT or UPDATE statement; other calls may run between them.           *)

\* .values(self) of the INSERT: the columns the instance holds.
InsertRow(i) == [c \in Cols |-> IF c \in DOMAIN i THEN i[c] ELSE Null]

\* (mutation of UpdateValues: fields_permanent is not added to fields)
UpdateValues_NoPermanent(i, fields, k) ==
    IF fields # {} THEN {f \in DOMAIN i : f \in fields}
    ELSE IF k.fields_readonly # {}
    THEN {f \in DOMAIN i : f \notin k.fields_readonly}
    ELSE DOMAIN i

\* The names of the instance fields the UPDATE sets.
UpdateValues(i, fields, k) ==
    IF fields # {}
    THEN {f \in DOMAIN i : f \in fields \cup k.fields_permanent}
    ELSE IF k.fields_readonly # {}
    THEN {f \in DOMAIN i : f \notin k.fields_readonly}
    ELSE DOMAIN i

\* UPDATE ... SET of the selected columns on one row.
UpdateRow(row, i, sel) == [c \in Cols |-> IF c \in sel THEN i[c] ELSE row[c]]

\* `if not saved:`
NeedsInsert(saved) == ~saved

\* save(fields=...): with a primary key the first await is the existence
\* check, without one it is the INSERT.  fields = {} is fields=None.
\* Calls whose UPDATE would name no column at all are left out.
save(fields) ==
    /\ sv.pc = "idle"
    /\ primary_key \in DOMAIN inst => UpdateValues(inst, fields, klass) # {}
    /\ sv' = [IdleSave EXCEPT
                !.fields = fields,
                !.pc = IF primary_key \in DOMAIN inst THEN "check"
                       ELSE "insert"]
    /\ UNCHANGED <<table, cache, call, regVars, extVars, klass, inst>>

\* saved = await self._get_one(self.pk, connection=connection)
save_get_one ==
    /\ sv.pc = "check"
    /\ LET saved == table[inst[primary_key]] # NoRow
       IN sv' = [sv EXCEPT !.saved = saved,
                           !.pc = IF NeedsInsert(saved) THEN "insert"
                                  ELSE "update"]
    /\ UNCHANGED <<table, cache, call, regVars, extVars, klass, inst>>

\* INSERT ... RETURNING pk: with the instance's key, or with a key the
\* table generates; a key already stored violates the primary key.
save_insert ==
    /\ sv.pc = "insert"
    /\ IF primary_key \in DOMAIN inst
       THEN LET k == inst[primary_key]
            IN IF table[k] # NoRow
               THEN /\ sv' = [sv EXCEPT !.pc = "done", !.path = "insert",
                                        !.err = "IntegrityError"]
                    /\ UNCHANGED <<table, inst>>
               ELSE /\ table' = [table EXCEPT ![k] = InsertRow(inst)]
                    /\ sv' = [sv EXCEPT !.pc = "done", !.path = "insert",
                                        !.ret = Some(k)]
                    /\ UNCHANGED inst
       ELSE \E k \in PKs :
               /\ table[k] = NoRow
               /\ table' = [table EXCEPT ![k] = InsertRow(inst)]
               /\ inst' = [f \in DOMAIN inst \cup {primary_key} |->
                             IF f = primary_key THEN k ELSE inst[f]]
               /\ sv' = [sv EXCEPT !.pc = "done", !.path = "insert",
                                   !.ret = Some(k)]
    /\ UNCHANGED <<cache, call, regVars, extVars, klass>>

\* UPDATE ... WHERE pk = self.pk RETURNING pk, then `assert self.pk == pk`:
\* with no such row the statement returns None and the assertion fails.
save_update ==
    /\ sv.pc = "update"
    /\ LET k == inst[primary_key]
       IN IF table[k] = NoRow
          THEN /\ sv' = [sv EXCEPT !.pc = "done", !.path = "update",
                                   !.err = "AssertionError"]
               /\ UNCHANGED table
          ELSE /\ table' = [table EXCEPT ![k] =
                    UpdateRow(table[k], inst,
                              UpdateValues(inst, sv.fields, klass))]
               /\ sv' = [sv EXCEPT !.pc = "done", !.path = "update",
                                   !.ret = Some(k)]
    /\ UNCHANGED <<cache, call, regVars, extVars, klass, inst>>

\* The call has returned or raised; the instance can be saved again.
save_return ==
    /\ sv.pc = "done"
    /\ sv' = IdleSave
    /\ UNCHANGED <<table, cache, call, regVars, extVars, klass, inst>>

----------------------------------------------------------------------------
(* SpecSave: one instance is saved again and again, with any fields        *)
(* argument, while rows are deleted by other calls.                        *)

FieldVals(f) == IF f = primary_key THEN PKs ELSE Vals

\* Instances built by direct key/value construction.
Instances ==
    UNION {{i \in [S -> PKs \cup Vals] : \A f \in S : i[f] \in FieldVals(f)} :
           S \in SUBSET Fields}

Klasses ==
    [fields_permanent : {{}, {"y"}}, fields_readonly : {{}, {"y"}}]

InitSave ==
    /\ table \in [PKs -> {NoRow, Row(1, 1)}]
    /\ cache = <<>>
    /\ call = [p \in Procs |-> IdleCall]
    /\ RegIdle
    /\ klass \in Klasses
    /\ inst \in Instances
    /\ sv = IdleSave
    /\ ExtIdle

NextSave ==
    \/ \E fields \in SUBSET Cols : save(fields)
    \/ save_get_one
    \/ save_insert
    \/ save_update
    \/ save_return
    \/ \E k \in PKs : delete_where(k)

SpecSave == InitSave /\ [][NextSave]_vars

----------------------------------------------------------------------------
(* Claims about the cached aggregates (SpecAgg).                           *)

Stepped(p, from) == call[p].pc = from /\ call'[p].pc # from

Counting(p) == call[p].op = "count"
Summing(p) == call[p].op = "sum"

\* C1: get_count with a non-zero expire returns the cached value without
\* recomputing when the store holds an entry under the key (whatever the
\* rows are by then); on a miss it recomputes the true count, stores it
\* under the key, gives the entry TTL = expire and returns it.  Hence a
\* second call on the same key that hits returns what the first stored.
C1_CountStep(p) ==
    /\ Stepped(p, "get") =>
          IF call[p].key \in DOMAIN cache
          THEN /\ call'[p].pc = "done"
               /\ call'[p].ret = Some(StrToInt(cache[call[p].key].val))
               /\ call'[p].count = None
               /\ cache' = cache
          ELSE call'[p].pc = "real"
    /\ (Stepped(p, "real") /\ call[p].ttl # 0) =>
          /\ call'[p].count = Some(SqlCount(table, call[p].where))
          /\ call'[p].pc = "set"
    /\ Stepped(p, "set") =>
          /\ call[p].key \in DOMAIN cache'
          /\ StrToInt(cache'[call[p].key].val) = The(call[p].count)
          /\ call'[p].pc = "expire"
    /\ Stepped(p, "expire") =>
          /\ call[p].key \in DOMAIN cache =>
                cache'[call[p].key] =
                    [cache[call[p].key] EXCEPT !.ttl = call[p].ttl]
          /\ call'[p].ret = call[p].count
          /\ call'[p].pc = "done"

C1_SecondCallCached ==
    \A p, q \in Procs :
        (/\ p # q
         /\ Counting(p) /\ Counting(q)
         /\ call[p].pc = "done" /\ call[q].pc = "done"
         /\ call[p].ttl # 0 /\ call[q].ttl # 0
         /\ call[p].key = call[q].key
         /\ ~call[p].hit /\ call[q].hit)
        => call[q].ret = call[p].ret

C1_CachedCount ==
    /\ [][\A p \in Procs : Counting(p) => C1_CountStep(p)]_vars
    /\ []C1_SecondCallCached

\* A second call returned the first call's count although the rows have
\* changed since: the value is stale.
C1_Witness ==
    \E p, q \in Procs :
        /\ p # q
        /\ Counting(p) /\ Counting(q)
        /\ call[p].pc = "done" /\ call[q].pc = "done"
        /\ call[p].key = call[q].key /\ call[p].where = call[q].where
        /\ ~call[p].hit /\ call[q].hit
        /\ call[p].ttl # 0
        /\ call[q].ret = call[p].ret
        /\ call[q].ret # Some(SqlCount(table, call[q].where))
        /\ call[q].key \in DOMAIN cache /\ cache[call[q].key].ttl = call[p].ttl

\* C2: get_count with expire == 0 returns the count of the rows matching
\* at the time of the call whatever the cache holds; it derives no key,
\* never reaches a cache step and no step of it changes the cache store.
C2_NoCacheStep(p) ==
    (Counting(p) /\ call[p].ttl = 0) =>
        /\ call[p].pc \in {"real", "done"}
        /\ call[p].raw = None /\ ~call[p].hit /\ call[p].key = ""

C2_Step(p) ==
    (call'[p].op = "count" /\ call'[p].ttl = 0 /\ call'[p] # call[p]) =>
        /\ cache' = cache
        /\ Stepped(p, "real") =>
              /\ call'[p].ret = Some(Cardinality(
                    {k \in PKs : Matches(table[k], call[p].where)}))
              /\ call'[p].pc = "done"

C2_ExpireZeroBypasses ==
    /\ [][\A p \in Procs : C2_Step(p)]_vars
    /\ [](\A p \in Procs : C2_NoCacheStep(p))

\* An expire == 0 call has returned the true count while the store holds
\* another value under the key the same call with a TTL would use.
C2_Witness ==
    \E p \in Procs :
        LET k == CountKey(call[p].app, call[p].postfix, call[p].where)
        IN /\ Counting(p) /\ call[p].ttl = 0 /\ call[p].pc = "done"
           /\ k \in DOMAIN cache
           /\ Some(StrToInt(cache[k].val)) # call[p].ret
           /\ call[p].ret = Some(SqlCount(table, call[p].where))
           /\ call[p].ret # Some(0)

\* C3: get_sum touches the cache only when delay is non-zero: with
\* delay = 0 it never reaches a cache step, no step of it changes the
\* store and it returns the sum over the rows matching at the time of the
\* query; and whenever the database sum is null the call returns 0.
C3_NoCacheStep(p) ==
    (Summing(p) /\ call[p].ttl = 0) =>
        /\ call[p].pc \in {"real", "done"}
        /\ call[p].raw = None /\ ~call[p].hit

C3_Step(p) ==
    /\ (call'[p].op = "sum" /\ call'[p].ttl = 0 /\ call'[p] # call[p]) =>
          cache' = cache
    /\ (Summing(p) /\ Stepped(p, "real")) =>
          LET ks == {k \in PKs : Matches(table[k], call[p].where)}
          IN /\ call[p].ttl = 0 =>
                  /\ call'[p].pc = "done"
                  /\ call'[p].ret = Some(SumOver(table, ks))
             /\ ks = {} =>
                  /\ call'[p].pc = "done"
                  /\ call'[p].ret = Some(0)

C3_SumCacheOptIn ==
    /\ [][\A p \in Procs : C3_Step(p)]_vars
    /\ [](\A p \in Procs : C3_NoCacheStep(p))

\* A delay = 0 sum has returned the true, non-zero sum while the store
\* holds another value under its key.
C3_Witness ==
    \E p \in Procs :
        /\ Summing(p) /\ call[p].ttl = 0 /\ call[p].pc = "done"
        /\ call[p].key \in DOMAIN cache
        /\ Some(StrToInt(cache[call[p].key].val)) # call[p].ret
        /\ call[p].ret = SqlSum(table, call[p].where)

\* C4: whenever get_count (expire # 0) or get_sum (delay # 0) misses and
\* recomputes, then on return the store holds an entry under the key with
\* the recomputed value, also when the sum is over no rows.
C4_MissWritesEntry ==
    [][\A p \in Procs :
        (/\ call[p].pc # "done" /\ call'[p].pc = "done"
         /\ call[p].ttl # 0
         /\ call'[p].count # None)
        => /\ call[p].key \in DOMAIN cache'
           /\ StrToInt(cache'[call[p].key].val) = The(call'[p].count)]_vars

----------------------------------------------------------------------------
(* SpecKey: two callers bound to any of several applications share one     *)
(* cache store; each makes one cached aggregate call with its own postfix. *)

KeyApps ==
    {NamelessApp, App(TRUE, TRUE, "a"), App(TRUE, TRUE, "b"),
     App(TRUE, TRUE, "a:count")}
KeyPostfixes == {"", "p", "count:p", "aggregate:sum:p"}

InitKey ==
    /\ table = [k \in PKs |-> IF k = 1 THEN Row(1, 1) ELSE Row(2, 1)]
    /\ cache = <<>>
    /\ call = [p \in Procs |-> IdleCall]
    /\ RegIdle
    /\ SaveIdle
    /\ ExtIdle

NextKey ==
    \/ \E p \in Procs, a \in KeyApps, w \in Wheres, pf \in KeyPostfixes,
          e \in 1..MaxExpire :
          get_count(p, a, w, pf, e)
    \/ \E p \in Procs : get_count_get(p)
    \/ \E p \in Procs : real_count(p)
    \/ \E p \in Procs : get_count_set(p)
    \/ \E p \in Procs : get_count_expire(p)
    \/ \E p \in Procs, a \in KeyApps, w \in SumWheres, pf \in KeyPostfixes,
          d \in 1..MaxExpire :
          get_sum(p, a, w, pf, d)
    \/ \E p \in Procs : get_sum_get(p)
    \/ \E p \in Procs : get_sum_scalar(p)
    \/ \E p \in Procs : get_sum_set(p)
    \/ \E p \in Procs : get_sum_expire(p)

SpecKey == InitKey /\ [][NextKey]_vars

Named(a) == a.bound /\ a.named

\* C5: aggregate cache keys of applications with different names never
\* collide, so a value cached by one application is never returned to the
\* other; and a count key never equals a sum key.
C5_KeysNeverCollide ==
    \A p, q \in Procs :
        (p # q /\ call[p].key # "" /\ call[q].key # "") =>
            /\ (/\ Named(call[p].app) /\ Named(call[q].app)
                /\ call[p].app.name # call[q].app.name)
               => call[p].key # call[q].key
            /\ (Counting(p) /\ Summing(q)) => call[p].key # call[q].key

----------------------------------------------------------------------------
(* Claims about the registry (SpecReg).                                    *)

Access(a, n) == AppModels_attr(a, n) \/ AppModels_getitem(a, n)

\* C6: binding is idempotent per (application, name): an attribute set on
\* an AppModels instance is never replaced, every access that yields a
\* type yields the one kept on the instance, and an access of a name that
\* is already bound returns that same object and creates no type.
C6_AccessStep(a, n) ==
    /\ appm[a][n] # 0 => appm'[a][n] = appm[a][n]
    /\ (appm[a][n] # 0 /\ Access(a, n)) =>
          /\ last'.outcome = "type" /\ last'.val = appm[a][n]
          /\ types' = types /\ models' = models

C6_Kept ==
    last.outcome = "type" =>
        /\ last.val = appm[last.app][last.item]
        /\ ~last.rebound
        /\ last.bound # 0 => last.val = last.bound

C7_UnregisteredFails ==
    [][\A a \in AppIds, n \in RegNames :
        (models[n] = 0 /\ Access(a, n)) =>
            /\ last'.outcome \in {"AttributeError", "KeyError"}
            /\ models' = models /\ appm' = appm]_vars

\* The resolvers attached to the types bound for an application.
Resolvers(a) ==
    UNION {types[appm[a][n]].resolvers : n \in {m \in RegNames : appm[a][m] # 0}}

\* C8: within one application all resolvers through one join table hold
\* the same join type object, and it is the one the application's
\* registry scope holds under the join table's normalized name.
C8_OneJoinType ==
    \A a \in AppIds : \A r1, r2 \in Resolvers(a) :
        r1.through = r2.through =>
            /\ r1.model = r2.model
            /\ appm[a][convert_class_name(r1.through)] # 0 =>
                  r1.model = appm[a][convert_class_name(r1.through)]

----------------------------------------------------------------------------
(* Claims about Model.save, checked under SpecSave.                        *)

\* The step on which save's INSERT or UPDATE statement runs.
Written == sv.pc \in {"insert", "update"} /\ sv'.pc = "done"

C9_Step ==
    Written =>
        /\ primary_key \notin DOMAIN inst =>
               /\ sv'.path = "insert"
               /\ primary_key \in DOMAIN inst'
               /\ table[inst'[primary_key]] = NoRow
        /\ (primary_key \in DOMAIN inst /\ ~sv.saved) =>
               /\ sv'.path = "insert"
               /\ inst' = inst
        /\ (primary_key \in DOMAIN inst /\ sv.saved) =>
               /\ sv'.path = "update"
               /\ \A k \in PKs : table[k] = NoRow => table'[k] = NoRow
        /\ primary_key \in DOMAIN inst'
        /\ table'[inst'[primary_key]] # NoRow
        /\ sv'.ret = Some(inst'[primary_key])

\* C9: save inserts when the instance has no primary key (setting the
\* generated key on it) or when no row with its key was found, and updates
\* without inserting when one was found; in every case the row with the
\* instance's key is stored afterwards and the instance's key is returned.
C9_SaveByExistence == [][C9_Step]_vars

\* The column selection as the update path is described: fields plus
\* fields_permanent when fields are given, else all but fields_readonly
\* when that is declared, else every field, always among the instance's.
C10_Selected ==
    IF sv.fields # {}
    THEN (sv.fields \cup klass.fields_permanent) \cap DOMAIN inst
    ELSE IF klass.fields_readonly # {}
    THEN DOMAIN inst \ klass.fields_readonly
    ELSE DOMAIN inst

C10_Step ==
    (sv.pc = "update" /\ sv'.pc = "done") =>
        LET k == inst[primary_key]
        IN /\ \A j \in PKs \ {k} : table'[j] = table[j]
           /\ table[k] = NoRow => table'[k] = NoRow
           /\ table[k] # NoRow =>
                  \A c \in Cols :
                      table'[k][c] = IF c \in C10_Selected THEN inst[c]
                                     ELSE table[k][c]

\* C10: on the update path only the selected columns of the row with the
\* instance's key take the instance's values, every other column keeps its
\* stored value, and rows with another key are not changed.
C10_UpdateFrame == [][C10_Step]_vars

\* An update with fields = {x} has stored the instance's x and kept the
\* stored y, which differs from the instance's.
C10_Witness ==
    /\ sv.pc = "done" /\ sv.path = "update" /\ sv.err = ""
    /\ sv.fields = {"x"}
    /\ klass.fields_permanent = {}
    /\ DOMAIN inst = Fields
    /\ inst["x"] = 2 /\ inst["y"] = 2
    /\ table[inst[primary_key]] = Row(2, 1)

\* C19: the integrity assertion of save never fails, also when another call
\* deletes the row between save's existence check and its UPDATE.
C19_AssertionNeverFails == sv.err # "AssertionError"

----------------------------------------------------------------------------
(* Model.update_increment.  SpecInc: callers holding instances of stored   *)
(* rows, with in-memory values of any age, increment columns of them.      *)

MaxCalls == 3       \* update_increment calls issued in one behaviour

Deltas == {1, 2}

\* **kwargs: the columns named, each with its delta.
Kwargs == [{"x"} -> Deltas] \cup [Cols -> Deltas]

\* col + delta as the database computes it: NULL stays NULL.
SqlAdd(v, d) == IF v = Null THEN Null ELSE v + d

\* (mutation of IncrementRow: the column is set to the delta)
IncrementRow_Lost(row, kwargs) ==
    [c \in Cols |-> IF c \in DOMAIN kwargs THEN kwargs[c] ELSE row[c]]

\* .values({t.c[field]: t.c[field] + value for field, value in kwargs})
IncrementRow(row, kwargs) ==
    [c \in Cols |-> IF c \in DOMAIN kwargs THEN SqlAdd(row[c], kwargs[c])
                    ELSE row[c]]

IdleTask == [pc |-> "idle"]

\* update_increment(**kwargs) on the instance of caller p: the connection
\* is acquired first, so the statement runs in a later step.
update_increment(p, kwargs) ==
    /\ task[p].pc = "idle"
    /\ hist.n < MaxCalls
    /\ task' = [task EXCEPT ![p] = [pc |-> "execute", kwargs |-> kwargs]]
    /\ hist' = [hist EXCEPT
                  !.n = @ + 1,
                  !.asked[objs[p][primary_key]] =
                      [c \in Cols |-> IF c \in DOMAIN kwargs
                                      THEN @[c] + kwargs[c] ELSE @[c]]]
    /\ UNCHANGED <<aggVars, regVars, saveVars, rows, objs, pool>>

\* await connection.execute(t.update().where(pk == self.pk).values(...))
update_increment_execute(p) ==
    /\ task[p].pc = "execute"
    /\ LET k == objs[p][primary_key]
       IN table' = [table EXCEPT ![k] =
                      IF @ = NoRow THEN NoRow
                      ELSE IncrementRow(@, task[p].kwargs)]
    /\ task' = [task EXCEPT ![p] = IdleTask]
    /\ UNCHANGED <<cache, call, regVars, saveVars, rows, objs, pool, hist>>

\* instance.x = v by the holder of the instance (Model.__setattr__).
assign(p, v) ==
    /\ task[p].pc = "idle"
    /\ objs[p]["x"] # v
    /\ objs' = [objs EXCEPT ![p]["x"] = v]
    /\ UNCHANGED <<aggVars, regVars, saveVars, rows, task, pool, hist>>

InitInc ==
    /\ table \in [PKs -> {NoRow, Row(1, 2)}]
    /\ cache = <<>>
    /\ call = [p \in Procs |-> IdleCall]
    /\ RegIdle
    /\ SaveIdle
    /\ rows = <<>>
    /\ pool = <<>>
    /\ task = [p \in Procs |-> IdleTask]
    /\ objs \in [Procs -> [id : PKs, x : {1}, y : {2}]]
    /\ hist = [base |-> table, n |-> 0,
               asked |-> [k \in PKs |-> [c \in Cols |-> 0]]]

NextInc ==
    \/ \E p \in Procs, kwargs \in Kwargs : update_increment(p, kwargs)
    \/ \E p \in Procs : update_increment_execute(p)
    \/ \E p \in Procs, v \in Vals : assign(p, v)

SpecInc == InitInc /\ [][NextInc]_vars

\* The deltas of the calls on the row with key k that have not run yet.
PendingInc(k, c) ==
    LET P == {p \in Procs : /\ task[p].pc = "execute"
                            /\ objs[p][primary_key] = k
                            /\ c \in DOMAIN task[p].kwargs}
        RECURSIVE Sum(_)
        Sum(S) == IF S = {} THEN 0
                  ELSE LET q == CHOOSE q \in S : TRUE
                       IN task[q].kwargs[c] + Sum(S \ {q})
    IN Sum(P)

C11_NoLostIncrement ==
    \A k \in PKs :
        IF hist.base[k] = NoRow THEN table[k] = NoRow
        ELSE \A c \in Cols :
                table[k][c] + PendingInc(k, c) =
                    hist.base[k][c] + hist.asked[k][c]

C11_InstanceStep ==
    (\E p \in Procs : task'[p] # task[p]) => objs' = objs

\* C11: whatever the interleaving and whatever the callers' instances hold
\* in memory, every stored column equals its initial value plus all the
\* deltas of the update_increment calls that have run on the row, and the
\* calls leave the in-memory instances as they were.
C11_RaceFreeIncrement == []C11_NoLostIncrement /\ [][C11_InstanceStep]_vars

\* Both callers have incremented x of the same row while each held a value
\* of x that was never refreshed; all calls have completed.
C11_Witness ==
    /\ \A p \in Procs : task[p].pc = "idle"
    /\ hist.n = 3
    /\ objs["p1"][primary_key] = objs["p2"][primary_key]
    /\ LET k == objs["p1"][primary_key]
       IN /\ hist.base[k] # NoRow
          /\ table[k]["x"] = hist.base[k]["x"] + 4
          /\ objs["p1"]["x"] # table[k]["x"]
          /\ objs["p2"]["x"] # table[k]["x"]

----------------------------------------------------------------------------
(* Model.update_json.  JSON documents are tagged: an object maps keys to   *)
(* documents, an array is a sequence of documents.  SqlNull is the SQL     *)
(* NULL of a column never written.  Positional arguments are documents     *)
(* too, the field and the path segments being strings.                     *)

MaxJsonCalls == 2   \* update_json calls issued in one behaviour

Obj(f) == [t |-> "object", o |-> f]
Num(n) == [t |-> "number", n |-> n]
Arr(s) == [t |-> "array", s |-> s]
Str(c) == [t |-> "string", c |-> c]
SqlNull == [t |-> "NULL"]

EmptyObj == Obj(<<>>)

JCols == {"meta", "extra"}
Keys == {"a", "b"}

NoJRow == [meta |-> Num(-1), extra |-> Num(-1)]

\* sa.func.coalesce(t.c[field], sa.cast({}, JSONB))
Coalesce(doc) == IF doc = SqlNull THEN EmptyObj ELSE doc

AsArray(doc) == IF doc.t = "array" THEN doc.s ELSE <<doc>>

\* (mutation of JsonConcat: the stored top-level keys win over the patch's)
JsonConcat_KeepOld(l, r) ==
    IF l.t = "object" /\ r.t = "object" THEN Obj(l.o @@ r.o)
    ELSE Arr(AsArray(l) \o AsArray(r))

\* The jsonb || jsonb operator: two objects are merged at top level with
\* the right operand's keys winning, anything else is concatenated as
\* arrays.
JsonConcat(l, r) ==
    IF l.t = "object" /\ r.t = "object" THEN Obj(r.o @@ l.o)
    ELSE Arr(AsArray(l) \o AsArray(r))

\* for p in reversed(path): value = {p: value}, from segment i downwards.
RECURSIVE Wrap(_, _, _)
Wrap(path, i, value) ==
    IF i = 0 THEN value ELSE Wrap(path, i - 1, Obj(path[i].c :> value))

\* The kwargs the statement is built from; with args the trailing argument
\* is the value only when there is more than one and no keyword.
JsonKwargs(args, kwargs) ==
    IF Len(args) > 0
    THEN LET positional == Len(args) > 1 /\ DOMAIN kwargs = {}
             path == SubSeq(args, 2, IF positional THEN Len(args) - 1
                                     ELSE Len(args))
             value == IF positional THEN args[Len(args)] ELSE Obj(kwargs)
         IN args[1].c :> Wrap(path, Len(path), value)
    ELSE kwargs

\* UPDATE ... SET field = coalesce(field, '{}') || value, for each field.
JsonUpdateRow(row, kw) ==
    [c \in JCols |-> IF c \in DOMAIN kw
                     THEN JsonConcat(Coalesce(row[c]), kw[c]) ELSE row[c]]

\* update_json(*args, **kwargs) on the instance of caller p.
update_json(p, args, kwargs) ==
    /\ hist.n < MaxJsonCalls
    /\ LET k == objs[p][primary_key]
           fails == Len(args) = 0 /\ DOMAIN kwargs = {}
       IN /\ rows' = IF fails \/ rows[k] = NoJRow THEN rows
                     ELSE [rows EXCEPT ![k] =
                             JsonUpdateRow(@, JsonKwargs(args, kwargs))]
          /\ hist' = [n |-> hist.n + 1, pk |-> k, args |-> args,
                      kwargs |-> kwargs,
                      err |-> IF fails THEN "ValueError" ELSE ""]
    /\ UNCHANGED <<aggVars, regVars, saveVars, task, objs, pool>>

\* The documents callers pass as values.
JsonValues == {Num(1), Obj("a" :> Num(2)), Obj("b" :> Obj("a" :> Num(1)))}

\* The paths callers pass: none, one segment, two segments.
Paths == {<<>>, <<Str("a")>>, <<Str("b")>>, <<Str("a"), Str("b")>>}

\* (field, path..., value), (field, path...) with keywords, keywords only,
\* or nothing at all.
JsonCalls ==
    {[args |-> <<Str("meta")>> \o path \o <<v>>, kwargs |-> <<>>] :
        path \in Paths, v \in JsonValues}
    \cup {[args |-> <<Str("meta")>> \o path, kwargs |-> kw] :
        path \in Paths, kw \in {<<>>, "b" :> Num(2)}}
    \cup {[args |-> <<>>, kwargs |-> kw] :
        kw \in {<<>>} \cup [{"meta"} -> JsonValues]
                      \cup [JCols -> {Obj("a" :> Num(2))}]}

InitJson ==
    /\ table = [k \in PKs |-> NoRow]
    /\ cache = <<>>
    /\ call = [p \in Procs |-> IdleCall]
    /\ RegIdle
    /\ SaveIdle
    /\ pool = <<>>
    /\ task = <<>>
    /\ \E r \in {NoJRow,
                  [meta |-> SqlNull, extra |-> SqlNull],
                  [meta |-> Obj("a" :> Num(1) @@ "b" :> Num(1)),
                   extra |-> EmptyObj]} :
          rows = [k \in PKs |-> IF k = 1 THEN r
                                ELSE [meta |-> EmptyObj, extra |-> SqlNull]]
    /\ objs = [p \in Procs |-> [id |-> 1]]
    /\ hist = [n |-> 0, pk |-> 0, args |-> <<>>, kwargs |-> <<>>, err |-> ""]

NextJson ==
    \E p \in Procs, c \in JsonCalls : update_json(p, c.args, c.kwargs)

SpecJson == InitJson /\ [][NextJson]_vars

\* The patch as described: the value nested in single-key objects, the
\* innermost segment being the last.
RECURSIVE C12_Nest(_, _)
C12_Nest(path, value) ==
    IF path = <<>> THEN value
    ELSE Obj(Head(path).c :> C12_Nest(Tail(path), value))

\* The patches of a call, by field: from (field, path..., value), or from
\* the field=value keywords.
C12_Patch(args, kwargs) ==
    IF Len(args) > 1
    THEN args[1].c :> C12_Nest(SubSeq(args, 2, Len(args) - 1),
                               args[Len(args)])
    ELSE kwargs

\* old overlaid at top level by patch.
C12_Overlay(old, patch) ==
    Obj([k \in DOMAIN old.o \cup DOMAIN patch.o |->
            IF k \in DOMAIN patch.o THEN patch.o[k] ELSE old.o[k]])

\* The calls of the two described forms.
C12_Described ==
    \/ Len(hist'.args) > 1 /\ DOMAIN hist'.kwargs = {}
    \/ Len(hist'.args) = 0 /\ DOMAIN hist'.kwargs # {}

C12_Step ==
    (hist'.n # hist.n /\ C12_Described) =>
        LET k == hist'.pk
            patch == C12_Patch(hist'.args, hist'.kwargs)
        IN /\ hist'.err = ""
           /\ \A j \in PKs \ {k} : rows'[j] = rows[j]
           /\ \A c \in JCols \ DOMAIN patch : rows'[k][c] = rows[k][c]
           /\ \A c \in DOMAIN patch :
                LET old == IF rows[k][c] = SqlNull THEN EmptyObj
                           ELSE rows[k][c]
                IN (rows[k] # NoJRow /\ old.t = "object"
                        /\ patch[c].t = "object") =>
                       rows'[k][c] = C12_Overlay(old, patch[c])

\* C12: update_json builds its patch by nesting the value in single-key
\* objects from the innermost path segment outward (or takes it from the
\* keywords), and the stored column becomes the old object (the empty
\* object when null) with the patch's top-level keys replaced whole; other
\* keys, columns and rows keep their values.
C12_ShallowMergePatch == [][C12_Step]_vars

\* A second call has replaced the whole value under the top-level key "a",
\* which held an object, and has kept the key "b".
C12_Witness ==
    /\ hist.n = 2
    /\ hist.args = <<Str("meta"), Str("a"), Obj("a" :> Num(2))>>
    /\ rows[1]["meta"] = Obj("a" :> Obj("a" :> Num(2)) @@ "b" :> Num(1))

----------------------------------------------------------------------------
(* Model.get_or_create.  SpecGoc: two callers look rows up by primary key  *)
(* or by the predicate x = 1 and insert their defaults on a miss.          *)

\* The positional predicates (*args): none, a primary key, or x = 1.
NoArgs == [kind |-> "none", k |-> 0]
PkArg(k) == [kind |-> "pk", k |-> k]
X1Arg == [kind |-> "x1", k |-> 0]

\* cls._where(args) evaluated on the row stored under key k.
Selects(args, k, row) ==
    /\ row # NoRow
    /\ \/ args.kind = "pk" /\ args.k = k
       \/ args.kind = "x1" /\ row.x = 1

\* The stored row with its key, as a record instance.
Record(k, row) == [f \in Fields |-> IF f = primary_key THEN k ELSE row[f]]

\* defaults: the column x, with or without the primary key.
Defaults ==
    {d \in Instances : DOMAIN d \in {{"x"}, {primary_key, "x"}}}

\* `if args: pass / elif cls.primary_key in defaults: args = (pk,)`
LookupArgs(args, defaults) ==
    IF args # NoArgs THEN args
    ELSE IF primary_key \in DOMAIN defaults
    THEN PkArg(defaults[primary_key])
    ELSE NoArgs

\* (mutation of LookupHit: the row found is ignored)
LookupHit_Never(saved) == FALSE

\* `if saved:`
LookupHit(saved) == saved # None

\* (mutation of Conflicts: the table accepts a second row for a key)
Conflicts_Never(t, d) == FALSE

\* An INSERT of values d violates the primary key of table t.
Conflicts(t, d) ==
    primary_key \in DOMAIN d /\ t[d[primary_key]] # NoRow

IdleGoc ==
    [pc |-> "idle", args |-> NoArgs, defaults |-> <<>>, looked |-> FALSE,
     ret |-> None, err |-> ""]

\* get_or_create(*args, defaults=...): the first await is the lookup, or
\* the INSERT when there is nothing to look up by.
get_or_create(p, args, defaults) ==
    /\ task[p].pc = "idle"
    /\ LET a == LookupArgs(args, defaults)
       IN task' = [task EXCEPT ![p] =
                     [IdleGoc EXCEPT !.args = a, !.defaults = defaults,
                                     !.pc = IF a # NoArgs THEN "lookup"
                                            ELSE "insert"]]
    /\ UNCHANGED <<aggVars, regVars, saveVars, rows, objs, pool, hist>>

\* saved = await cls._get_one(*args): the first row the query yields.
get_or_create_get_one(p) ==
    /\ task[p].pc = "lookup"
    /\ LET found == {k \in PKs : Selects(task[p].args, k, table[k])}
       IN \E saved \in IF found = {} THEN {None}
                       ELSE {Some(Record(k, table[k])) : k \in found} :
             task' = [task EXCEPT ![p] =
                        IF LookupHit(saved)
                        THEN [@ EXCEPT !.pc = "done", !.looked = TRUE,
                                       !.ret = Some([obj |-> The(saved),
                                                     created |-> FALSE])]
                        ELSE [@ EXCEPT !.pc = "insert", !.looked = TRUE]]
    /\ UNCHANGED <<aggVars, regVars, saveVars, rows, objs, pool, hist>>

\* pk = await connection.scalar(insert().returning(pk).values(defaults));
\* obj = cls(**defaults); obj.pk = pk; return obj, True
get_or_create_insert(p) ==
    /\ task[p].pc = "insert"
    /\ LET d == task[p].defaults
       IN IF Conflicts(table, d)
          THEN /\ task' = [task EXCEPT ![p].pc = "done",
                                       ![p].err = "IntegrityError"]
               /\ UNCHANGED table
          ELSE \E k \in PKs :
                  /\ IF primary_key \in DOMAIN d THEN k = d[primary_key]
                     ELSE table[k] = NoRow
                  /\ table' = [table EXCEPT ![k] = InsertRow(d)]
                  /\ task' = [task EXCEPT
                        ![p].pc = "done",
                        ![p].ret = Some(
                            [obj |-> [f \in DOMAIN d \cup {primary_key} |->
                                        IF f = primary_key THEN k ELSE d[f]],
                             created |-> TRUE])]
    /\ UNCHANGED <<cache, call, regVars, saveVars, rows, objs, pool, hist>>

\* The call has returned or raised.
get_or_create_return(p) ==
    /\ task[p].pc = "done"
    /\ task' = [task EXCEPT ![p] = IdleGoc]
    /\ UNCHANGED <<aggVars, regVars, saveVars, rows, objs, pool, hist>>

GocArgs == {NoArgs, X1Arg} \cup {PkArg(k) : k \in PKs}

InitGoc ==
    /\ table \in [PKs -> {NoRow, Row(1, 1), Row(2, 1)}]
    /\ cache = <<>>
    /\ call = [p \in Procs |-> IdleCall]
    /\ RegIdle
    /\ SaveIdle
    /\ rows = <<>>
    /\ objs = <<>>
    /\ pool = <<>>
    /\ hist = <<>>
    /\ task = [p \in Procs |-> IdleGoc]

NextGoc ==
    \/ \E p \in Procs, args \in GocArgs, defaults \in Defaults :
          get_or_create(p, args, defaults)
    \/ \E p \in Procs : get_or_create_get_one(p)
    \/ \E p \in Procs : get_or_create_insert(p)
    \/ \E p \in Procs : get_or_create_return(p)

SpecGoc == InitGoc /\ [][NextGoc]_vars

C13_Step(p) ==
    /\ (task[p].pc = "lookup" /\ task'[p] # task[p]) =>
          /\ table' = table
          /\ IF \E k \in PKs : Selects(task[p].args, k, table[k])
             THEN /\ task'[p].pc = "done"
                  /\ task'[p].err = ""
                  /\ \E k \in PKs :
                        /\ Selects(task[p].args, k, table[k])
                        /\ task'[p].ret =
                             Some([obj |-> Record(k, table[k]),
                                   created |-> FALSE])
             ELSE task'[p].pc = "insert"
    /\ (task[p].pc = "insert" /\ task'[p].pc = "done"
            /\ task'[p].err = "") =>
          \E k \in PKs :
             /\ table[k] = NoRow
             /\ \A j \in PKs \ {k} : table'[j] = table[j]
             /\ \A c \in Cols :
                   table'[k][c] = IF c \in DOMAIN task[p].defaults
                                  THEN task[p].defaults[c] ELSE Null
             /\ \E r \in task'[p].ret :
                   /\ r.created
                   /\ r.obj[primary_key] = k
                   /\ \A f \in DOMAIN task[p].defaults \ {primary_key} :
                         r.obj[f] = task[p].defaults[f]
    /\ (task'[p].pc = "insert" /\ task[p].pc = "idle") =>
          /\ task'[p].args = NoArgs
          /\ primary_key \notin DOMAIN task'[p].defaults

C14_Attempted(p) ==
    /\ task[p].pc = "done"
    /\ task[p].looked
    /\ primary_key \in DOMAIN task[p].defaults
    /\ task[p].args = PkArg(task[p].defaults[primary_key])
    /\ (task[p].err # "" \/ \E r \in task[p].ret : r.created)

\* C14: when two get_or_create calls with the same predicates and defaults
\* both miss their lookup and both attempt the insert, the primary key lets
\* exactly one insert through: one call returns the created record, the
\* other fails with the constraint violation and returns nothing, and one
\* row is stored under the key.
C14_OneInsertWins ==
    \A p \in Procs, q \in Procs :
        (/\ p # q
         /\ C14_Attempted(p) /\ C14_Attempted(q)
         /\ task[p].args = task[q].args
         /\ task[p].defaults = task[q].defaults) =>
            /\ table[task[p].defaults[primary_key]] =
                   InsertRow(task[p].defaults)
            /\ \E w \in {p, q} :
                  /\ task[w].err = ""
                  /\ \E r \in task[w].ret : r.created
                  /\ \A l \in {p, q} \ {w} :
                        /\ task[l].err = "IntegrityError"
                        /\ task[l].ret = None

\* Both callers missed, both attempted the insert, and the second one has
\* failed.
C14_Witness ==
    /\ C14_Attempted("p1") /\ C14_Attempted("p2")
    /\ task["p1"].defaults = task["p2"].defaults
    /\ task["p1"].err = ""
    /\ task["p2"].err = "IntegrityError"

----------------------------------------------------------------------------
(* Model.get_dict.  A filter value is a scalar or a list (its items).      *)

Scalar(v) == [kind |-> "scalar", v |-> v]
List(S) == [kind |-> "list", items |-> S]

\* (mutation of AddsPredicate: an empty list gets its IN () predicate)
AddsPredicate_Always(v) == TRUE

\* `if isinstance(v, (list, tuple)): if v: ...  else: ...`
AddsPredicate(v) == v.kind = "scalar" \/ v.items # {}

\* cls.table.c[k].in_(v) or cls.table.c[k] == v on a row instance.
Satisfies(rec, k, v) ==
    IF v.kind = "list" THEN rec[k] \in v.items ELSE rec[k] = v.v

\* kwargs after `v, *where_and = where_and; kwargs[cls.primary_key] = v`.
DictKwargs(pos, kwargs) ==
    IF pos = None THEN kwargs
    ELSE (primary_key :> The(pos)) @@ kwargs

\* The rows get_list yields for the predicates built, keyed by primary key.
GetDict(t, pos, kwargs, extra) ==
    LET kw == DictKwargs(pos, kwargs)
        where == {k \in DOMAIN kw : AddsPredicate(kw[k])}
        l == {k \in PKs : /\ Matches(t[k], extra)
                          /\ \A f \in where :
                                Satisfies(Record(k, t[k]), f, kw[f])}
    IN [k \in l |-> Record(k, t[k])]

\* get_dict(*where_and, **kwargs): pos is the leading key argument if any,
\* extra the SQL clause passed after it ("all": none).  Callers name the
\* primary key once: as the leading argument or as a keyword.
get_dict(pos, kwargs, extra) ==
    /\ pos # None => primary_key \notin DOMAIN kwargs
    /\ hist' = [pos |-> pos, kwargs |-> kwargs, extra |-> extra,
                ret |-> Some(GetDict(table, pos, kwargs, extra))]
    /\ hist' # hist
    /\ UNCHANGED <<aggVars, regVars, saveVars, rows, task, objs, pool>>

FilterValues(S) == {Scalar(v) : v \in S} \cup {List(L) : L \in SUBSET S}

DictKwargsGiven ==
    {<<>>}
    \cup [{"x"} -> FilterValues(Vals)]
    \cup [{primary_key} -> FilterValues(PKs)]
    \cup [{primary_key, "x"} -> {List({}), List({1})}]

InitDict ==
    /\ table \in [PKs -> {NoRow, Row(1, 1), Row(2, 1)}]
    /\ cache = <<>>
    /\ call = [p \in Procs |-> IdleCall]
    /\ RegIdle
    /\ SaveIdle
    /\ rows = <<>>
    /\ task = <<>>
    /\ objs = <<>>
    /\ pool = <<>>
    /\ hist = [pos |-> None, kwargs |-> <<>>, extra |-> "all", ret |-> None]

NextDict ==
    \E pos \in {None} \cup {Some(v) : v \in FilterValues(PKs)},
       kwargs \in DictKwargsGiven, extra \in Wheres :
        get_dict(pos, kwargs, extra)

SpecDict == InitDict /\ [][NextDict]_vars

\* The filter of the latest call on column f, if it names one: the leading
\* key argument is the filter on the primary key.
C15_Filter(f) ==
    IF f = primary_key /\ hist.pos # None THEN hist.pos
    ELSE IF f \in DOMAIN hist.kwargs THEN Some(hist.kwargs[f])
    ELSE None

\* The latest call without its filters whose value is an empty list.
C15_WithoutEmpty ==
    [pos |-> IF hist.pos = Some(List({})) THEN None ELSE hist.pos,
     kwargs |-> [f \in {g \in DOMAIN hist.kwargs :
                            hist.kwargs[g] # List({})} |-> hist.kwargs[f]]]

----------------------------------------------------------------------------
(* ManyToManyRelationship.  rows.links is the join table in retrieval      *)
(* order, rows.targets the keys stored in the target table.  SpecRel:      *)
(* callers resolve relations while join rows and targets are deleted.      *)

MaxLinks == 2       \* join rows stored at the start

SrcKeys == {1, 2}

LinkRows == [src : SrcKeys, tgt : PKs]

TargetRecord(k) == [id |-> k]

\* self._get_source_where_condition(source) on a join row.
SourceWhere(source, l) ==
    IF source.kind = "list" THEN l.src \in source.items
    ELSE l.src = source.v

\* await self.model.get_list(where): the join rows selected, in order.
SourceLinks(links, source) ==
    SelectSeq(links, LAMBDA l : SourceWhere(source, l))

\* await self.target_model.get_list(pk.in_(target_ids)), keyed by pk.
Targets(stored, links) ==
    [k \in {links[i].tgt : i \in 1..Len(links)} \cap stored |->
        TargetRecord(k)]

\* (mutation of TargetOf: a missing target is made up from its key)
TargetOf_MadeUp(targets, key) == Some(TargetRecord(key))

\* targets[target_key]: the record, or nothing where the lookup fails.
TargetOf(targets, key) ==
    IF key \in DOMAIN targets THEN Some(targets[key]) ELSE None

\* (mutation of Appended: a record already listed is not listed again)
Appended_Once(list, rec) ==
    IF \E i \in 1..Len(list) : list[i] = rec THEN list
    ELSE Append(list, rec)

\* result[source_key].append(...)
Appended(list, rec) == Append(list, rec)

\* for i in links: result[source_key].append(targets[target_key]), from
\* link i on; the loop ends at the first failing lookup.
RECURSIVE GroupLinks(_, _, _, _)
GroupLinks(links, i, targets, result) ==
    IF i > Len(links) THEN [kind |-> "ok", val |-> result]
    ELSE IF TargetOf(targets, links[i].tgt) = None
    THEN [kind |-> "KeyError", val |-> result]
    ELSE GroupLinks(links, i + 1, targets,
            [s \in DOMAIN result \cup {links[i].src} |->
                IF s = links[i].src
                THEN Appended(IF s \in DOMAIN result THEN result[s]
                              ELSE <<>>,
                              The(TargetOf(targets, links[i].tgt)))
                ELSE result[s]])

IdleRel ==
    [pc |-> "idle", op |-> "none", source |-> List({}), links |-> <<>>,
     stored |-> {}, ret |-> None, err |-> ""]

\* get_for_one(source) / get_for_list(source): the first await fetches
\* the join rows.
get_for(p, op, source) ==
    /\ task[p].pc = "idle"
    /\ task' = [task EXCEPT ![p] =
                  [IdleRel EXCEPT !.pc = "links", !.op = op,
                                  !.source = source]]
    /\ UNCHANGED <<aggVars, regVars, saveVars, rows, objs, pool, hist>>

\* links = await self._get_source_links(source, connection=connection)
get_source_links(p) ==
    /\ task[p].pc = "links"
    /\ task' = [task EXCEPT
                  ![p].pc = "targets",
                  ![p].links = SourceLinks(rows.links, task[p].source)]
    /\ UNCHANGED <<aggVars, regVars, saveVars, rows, objs, pool, hist>>

\* targets = await self._get_targets(links, ...), and what follows it:
\* get_for_one returns the targets (in no stated order), get_for_list
\* groups them by source key.
get_targets(p) ==
    /\ task[p].pc = "targets"
    /\ LET targets == Targets(rows.targets, task[p].links)
           g == GroupLinks(task[p].links, 1, targets, <<>>)
       IN task' = [task EXCEPT ![p] =
                [@ EXCEPT
                   !.pc = "done",
                   !.stored = rows.targets,
                   !.ret = IF task[p].op = "one"
                           THEN Some({targets[k] : k \in DOMAIN targets})
                           ELSE IF g.kind = "ok" THEN Some(g.val)
                           ELSE None,
                   !.err = IF task[p].op = "one" \/ g.kind = "ok" THEN ""
                           ELSE g.kind]]
    /\ UNCHANGED <<aggVars, regVars, saveVars, rows, objs, pool, hist>>

\* The call has returned or raised.
get_for_return(p) ==
    /\ task[p].pc = "done"
    /\ task' = [task EXCEPT ![p] = IdleRel]
    /\ UNCHANGED <<aggVars, regVars, saveVars, rows, objs, pool, hist>>

\* ManyToManyRelationship.delete(source): the join rows of a source key.
delete_links(s) ==
    /\ \E i \in 1..Len(rows.links) : rows.links[i].src = s
    /\ rows' = [rows EXCEPT !.links = SelectSeq(@, LAMBDA l : l.src # s)]
    /\ UNCHANGED <<aggVars, regVars, saveVars, task, objs, pool, hist>>

\* target_model.delete of a target no join row refers to any more.
delete_target(k) ==
    /\ k \in rows.targets
    /\ \A i \in 1..Len(rows.links) : rows.links[i].tgt # k
    /\ rows' = [rows EXCEPT !.targets = @ \ {k}]
    /\ UNCHANGED <<aggVars, regVars, saveVars, task, objs, pool, hist>>

Sources == {Scalar(s) : s \in SrcKeys} \cup {List(S) : S \in SUBSET SrcKeys}

\* One caller resolves; what interleaves with it are the deletions.
RelCallers == {"p1"}

InitRel ==
    /\ table = [k \in PKs |-> NoRow]
    /\ cache = <<>>
    /\ call = [p \in Procs |-> IdleCall]
    /\ RegIdle
    /\ SaveIdle
    /\ objs = <<>>
    /\ pool = <<>>
    /\ hist = <<>>
    /\ task = [p \in RelCallers |-> IdleRel]
    /\ \E n \in 0..MaxLinks : \E links \in [1..n -> LinkRows] :
          rows = [links |-> links,
                  targets |-> {links[i].tgt : i \in 1..n}]

NextRel ==
    \/ \E p \in RelCallers, op \in {"one", "list"}, source \in Sources :
          get_for(p, op, source)
    \/ \E p \in RelCallers : get_source_links(p)
    \/ \E p \in RelCallers : get_targets(p)
    \/ \E p \in RelCallers : get_for_return(p)
    \/ \E s \in SrcKeys : delete_links(s)
    \/ \E k \in PKs : delete_target(k)

SpecRel == InitRel /\ [][NextRel]_vars

\* The targets of the join rows of source key s, one per join row, in the
\* order the join rows were retrieved.
C16_ListOf(links, s) ==
    LET mine == SelectSeq(links, LAMBDA l : l.src = s)
    IN [i \in 1..Len(mine) |-> TargetRecord(mine[i].tgt)]

C16_Step(p) ==
    /\ (task[p].pc = "links" /\ task'[p].pc = "targets") =>
          \A s \in SrcKeys :
             LET asked == IF task[p].source.kind = "list"
                          THEN s \in task[p].source.items
                          ELSE s = task[p].source.v
             IN SelectSeq(task'[p].links, LAMBDA l : l.src = s) =
                   IF asked THEN SelectSeq(rows.links, LAMBDA l : l.src = s)
                   ELSE <<>>
    /\ (task[p].pc = "targets" /\ task[p].op = "list"
            /\ task'[p].pc = "done" /\ task'[p].err = "") =>
          \E r \in task'[p].ret :
             /\ DOMAIN r = {task[p].links[i].src :
                               i \in 1..Len(task[p].links)}
             /\ \A s \in DOMAIN r : r[s] = C16_ListOf(task[p].links, s)

\* C16: get_for_list returns a mapping whose keys are exactly the asked
\* source keys that have a join row, each with one target per join row in
\* retrieval order, duplicates included.
C16_ResolveMany == [][\A p \in RelCallers : C16_Step(p)]_vars

\* Source key 1 has two join rows to the same target and is mapped to two
\* entries; source key 2 was asked for too, has none and is absent.
C16_Witness ==
    /\ task["p1"].pc = "done" /\ task["p1"].op = "list"
    /\ task["p1"].source = List({1, 2})
    /\ task["p1"].ret =
          Some(1 :> <<TargetRecord(1), TargetRecord(1)>>)

\* A target of a fetched join row is missing when the targets are queried.
C20_Missing(p) ==
    \E i \in 1..Len(task[p].links) : task[p].links[i].tgt \notin rows.targets

C20_Step(p) ==
    (task[p].pc = "targets" /\ task'[p].pc = "done" /\ C20_Missing(p)) =>
        IF task[p].op = "list"
        THEN task'[p].err = "KeyError" /\ task'[p].ret = None
        ELSE /\ task'[p].err = ""
             /\ task'[p].ret =
                   Some({TargetRecord(task[p].links[i].tgt) :
                            i \in {j \in 1..Len(task[p].links) :
                                     task[p].links[j].tgt \in rows.targets}})

\* C20: when a target of a fetched join row is gone by the time the targets
\* are queried, get_for_list fails with the lookup error and returns no
\* partial mapping, while get_for_one returns the targets that still exist.
C20_UnguardedLookup == [][\A p \in RelCallers : C20_Step(p)]_vars

\* get_for_list has failed on a target deleted after its join rows were
\* fetched.
C20_Witness ==
    /\ task["p1"].pc = "done" /\ task["p1"].op = "list"
    /\ task["p1"].err = "KeyError"
    /\ \E i \in 1..Len(task["p1"].links) :
          task["p1"].links[i].tgt \notin task["p1"].stored

----------------------------------------------------------------------------
(* method_connect_once / method_redis_once.  SpecPool: top-level engine    *)
(* calls, with or without a supplied connection, run their nested engine   *)
(* calls; any call may fail at any of its awaits.                          *)

\* The decorated engine functions the model runs.
EngineFns ==
    {"save", "validate_and_save", "create", "create_many", "get_list",
     "get_for_list", "_get_source_links", "_get_targets", "_pg_scalar",
     "get_count", "get_sum"}

\* The engine calls a function body makes, in order; a set where the body
\* has several paths.
Nested(fn) ==
    CASE fn = "validate_and_save" -> {<<>>, <<"save">>}
      [] fn = "create_many" -> {<<>>, <<"create">>, <<"create", "create">>}
      [] fn = "get_for_list" -> {<<"_get_source_links", "_get_targets">>}
      [] fn = "_get_source_links" -> {<<"get_list">>}
      [] fn = "_get_targets" -> {<<"get_list">>}
      [] fn = "get_count" -> {<<>>, <<"_pg_scalar">>}
      [] fn = "get_sum" -> {<<>>, <<"_pg_scalar">>}
      [] OTHER -> {<<>>}

\* @method_connect_once is on every engine function but get_count.
ConnectOnce(fn) == fn # "get_count"

\* @method_redis_once is on the cached aggregates.
RedisOnce(fn) == fn \in {"get_count", "get_sum"}

\* (mutation of NeedsAcquire: the wrapper acquires whatever it is passed)
NeedsAcquire_Always(given) == TRUE

\* `if kwargs.get('connection') is None:` / `if kwargs.get(redis) is None:`
NeedsAcquire(given) == ~given

\* The frame of a call of fn entered with (or without) a connection and a
\* cache-store connection in its keyword arguments.
Frame(fn, todo, db, redis) ==
    [fn |-> fn, todo |-> todo,
     ownDb |-> ConnectOnce(fn) /\ NeedsAcquire(db),
     ownRedis |-> RedisOnce(fn) /\ NeedsAcquire(redis),
     db |-> db \/ ConnectOnce(fn),
     redis |-> redis \/ RedisOnce(fn)]

IdlePool ==
    [stack |-> <<>>, raising |-> FALSE, failed |-> FALSE, db |-> FALSE,
     redis |-> FALSE]

Borrow(p, f) ==
    /\ pool' = [pool EXCEPT ![p].db = @ + IF f.ownDb THEN 1 ELSE 0,
                            ![p].redis = @ + IF f.ownRedis THEN 1 ELSE 0]
    /\ hist' = [hist EXCEPT ![p].db = @ + IF f.ownDb THEN 1 ELSE 0,
                            ![p].redis = @ + IF f.ownRedis THEN 1 ELSE 0]

\* Leaving `async with`: what the frame acquired goes back to the pool.
Release(p, f) ==
    pool' = [pool EXCEPT ![p].db = @ - IF f.ownDb THEN 1 ELSE 0,
                         ![p].redis = @ - IF f.ownRedis THEN 1 ELSE 0]

Top(p) == task[p].stack[Len(task[p].stack)]

Pop(p) == SubSeq(task[p].stack, 1, Len(task[p].stack) - 1)

\* A top-level call of fn; db / redis tell whether the caller supplies a
\* connection / a cache-store connection.
engine_call(p, fn, todo, db, redis) ==
    /\ task[p].stack = <<>>
    /\ todo \in Nested(fn)
    /\ LET f == Frame(fn, todo, db, redis)
       IN /\ task' = [task EXCEPT ![p] =
                        [stack |-> <<f>>, raising |-> FALSE,
                         failed |-> FALSE, db |-> db, redis |-> redis]]
          /\ pool' = [pool EXCEPT ![p] =
                        [db |-> IF f.ownDb THEN 1 ELSE 0,
                         redis |-> IF f.ownRedis THEN 1 ELSE 0]]
          /\ hist' = [hist EXCEPT ![p] =
                        [db |-> IF f.ownDb THEN 1 ELSE 0,
                         redis |-> IF f.ownRedis THEN 1 ELSE 0]]
    /\ UNCHANGED <<aggVars, regVars, saveVars, rows, objs>>

\* The body calls its next engine function with connection=connection
\* (and nothing for the cache store).
nested_call(p) ==
    /\ task[p].stack # <<>>
    /\ ~task[p].raising
    /\ Top(p).todo # <<>>
    /\ \E todo \in Nested(Head(Top(p).todo)) :
       LET f == Frame(Head(Top(p).todo), todo, Top(p).db, FALSE)
       IN /\ task' = [task EXCEPT ![p].stack =
                        Append([@ EXCEPT ![Len(@)].todo = Tail(@)], f)]
          /\ Borrow(p, f)
    /\ UNCHANGED <<aggVars, regVars, saveVars, rows, objs>>

\* The function on top returns.
engine_return(p) ==
    /\ task[p].stack # <<>>
    /\ ~task[p].raising
    /\ Top(p).todo = <<>>
    /\ task' = [task EXCEPT ![p].stack = Pop(p)]
    /\ Release(p, Top(p))
    /\ UNCHANGED <<aggVars, regVars, saveVars, rows, objs, hist>>

\* The function on top raises at one of its awaits, or an exception from
\* the call below passes through it.
engine_raise(p) ==
    /\ task[p].stack # <<>>
    /\ task' = [task EXCEPT ![p].stack = Pop(p),
                            ![p].failed = TRUE,
                            ![p].raising = Len(task[p].stack) > 1]
    /\ Release(p, Top(p))
    /\ UNCHANGED <<aggVars, regVars, saveVars, rows, objs, hist>>

InitPool ==
    /\ table = [k \in PKs |-> NoRow]
    /\ cache = <<>>
    /\ call = [p \in Procs |-> IdleCall]
    /\ RegIdle
    /\ SaveIdle
    /\ rows = <<>>
    /\ objs = <<>>
    /\ task = [p \in Procs |-> IdlePool]
    /\ pool = [p \in Procs |-> [db |-> 0, redis |-> 0]]
    /\ hist = [p \in Procs |-> [db |-> 0, redis |-> 0]]

NextPool ==
    \/ \E p \in Procs, fn \in EngineFns, db \in BOOLEAN, redis \in BOOLEAN :
          \E todo \in Nested(fn) : engine_call(p, fn, todo, db, redis)
    \/ \E p \in Procs : nested_call(p)
    \/ \E p \in Procs : engine_return(p)
    \/ \E p \in Procs : engine_raise(p)

SpecPool == InitPool /\ [][NextPool]_vars

\* C17: a top-level call borrows at most one database connection and at
\* most one cache-store connection in all, none of a kind the caller
\* supplied; nested calls run on the connection of the enclosing call; and
\* once the call has completed, by return or by failure, nothing is
\* borrowed.
C17_ScopedAcquisition ==
    \A p \in Procs :
        /\ pool[p].db \in {0, 1} /\ pool[p].redis \in {0, 1}
        /\ hist[p].db <= 1 /\ hist[p].redis <= 1
        /\ task[p].db => hist[p].db = 0
        /\ task[p].redis => hist[p].redis = 0
        /\ \A i \in 1..Len(task[p].stack) :
              /\ i > 1 /\ task[p].stack[i - 1].db => ~task[p].stack[i].ownDb
              /\ task[p].stack[i].ownRedis => i = 1
        /\ task[p].stack = <<>> => pool[p].db = 0 /\ pool[p].redis = 0

\* A call that borrowed its connection itself has failed and completed:
\* the connection is back in the pool.
C17_Witness ==
    \E p \in Procs :
        /\ task[p].stack = <<>>
        /\ task[p].failed
        /\ ~task[p].db
        /\ hist[p].db = 1
        /\ pool[p].db = 0

----------------------------------------------------------------------------
(* Model.validate_and_save.  Validators are named transformations of the   *)
(* data; SpecVal runs the call on one instance and lets the save it starts *)
(* run to its end.                                                         *)

\* What a validator returns for the data it is given.
Validated(v, data) ==
    CASE v = "only_x" -> [f \in DOMAIN data \cap {"x"} |-> data[f]]
      [] v = "nothing" -> <<>>
      [] OTHER -> data

\* for validator in validators: data = validator(data), from the i-th on.
RECURSIVE RunValidators(_, _, _)
RunValidators(vs, i, data) ==
    IF i > Len(vs) THEN data
    ELSE RunValidators(vs, i + 1, Validated(vs[i], data))

\* self.validate(data, to_class=False, default_validator=False) followed by
\* the update_validators.
ValidateForUpdate(k, data) ==
    RunValidators(k.update_validators, 1,
                  RunValidators(k.validators, 1, data))

\* (mutation of Proceeds: empty data is saved too)
Proceeds_Always(data) == TRUE

\* `if data:`
Proceeds(data) == DOMAIN data # {}

\* validate_and_save(data): validation, self.update(data) and the start of
\* self.save(fields=data.keys()) up to its first await.
validate_and_save(data) ==
    /\ sv.pc = "idle"
    /\ LET valid == ValidateForUpdate(klass, data)
       IN /\ hist' = [n |-> 1 - hist.n, data |-> data, valid |-> valid]
          /\ IF Proceeds(valid)
             THEN /\ inst' = valid @@ inst
                  /\ sv' = [IdleSave EXCEPT
                              !.fields = DOMAIN valid,
                              !.pc = IF primary_key \in DOMAIN inst
                                     THEN "check" ELSE "insert"]
             ELSE UNCHANGED <<inst, sv>>
    /\ UNCHANGED <<aggVars, regVars, klass, rows, task, objs, pool>>

\* What callers pass: any columns with any values, or nothing.
Datas == UNION {[S -> Vals] : S \in SUBSET Cols}

ValKlasses ==
    [fields_permanent : {{}, {"y"}}, fields_readonly : {{}},
     validators : {<<>>, <<"only_x">>},
     update_validators : {<<>>, <<"nothing">>, <<"only_x">>}]

InitVal ==
    /\ table \in [PKs -> {NoRow, Row(1, 1)}]
    /\ cache = <<>>
    /\ call = [p \in Procs |-> IdleCall]
    /\ RegIdle
    /\ klass \in ValKlasses
    /\ inst \in {i \in Instances : "x" \in DOMAIN i /\ "y" \in DOMAIN i}
    /\ sv = IdleSave
    /\ rows = <<>>
    /\ task = <<>>
    /\ objs = <<>>
    /\ pool = <<>>
    /\ hist = [n |-> 0, data |-> <<>>, valid |-> <<>>]

NextVal ==
    \/ \E data \in Datas : validate_and_save(data)
    \/ save_get_one
    \/ save_insert
    \/ save_update
    \/ save_return

SpecVal == InitVal /\ [][NextVal]_vars

C18_Step ==
    hist'.n # hist.n =>
        IF hist'.valid = <<>>
        THEN /\ table' = table
             /\ inst' = inst
             /\ sv' = sv
             /\ sv'.ret = None
        ELSE /\ table' = table
             /\ inst' = [f \in DOMAIN inst \cup DOMAIN hist'.valid |->
                           IF f \in DOMAIN hist'.valid THEN hist'.valid[f]
                           ELSE inst[f]]
             /\ sv'.pc \in {"check", "insert"}
             /\ sv'.fields = DOMAIN hist'.valid

\* The columns of an update that save started by validate_and_save runs.
C18_UpdateStep ==
    (sv.pc = "update" /\ sv'.pc = "done" /\ table' # table) =>
        \A c \in Cols :
            table'[inst[primary_key]][c] # table[inst[primary_key]][c] =>
                c \in DOMAIN hist.valid \cup klass.fields_permanent

\* C18: with data that validates to empty, validate_and_save starts no
\* save, leaves the stored rows and the instance as they are and returns
\* nothing; otherwise it merges the validated data into the instance and
\* starts save with exactly the validated keys as fields, so an update
\* writes only those columns and fields_permanent.
C18_ValidateAndSave == [][C18_Step /\ C18_UpdateStep]_vars

\* Data rejected by the update validators: the call is over, nothing was
\* saved and the instance still differs from what was passed.
C18_Witness ==
    /\ hist.n = 1
    /\ hist.data = ("x" :> 2)
    /\ hist.valid = <<>>
    /\ sv = IdleSave
    /\ inst["x"] = 1

----------------------------------------------------------------------------
\* C24: every entry of the cache store has an expiry in every reachable
\* state, the states between redis.set and redis.expire of get_count and
\* get_sum included.
C24_EveryEntryExpires == \A k \in DOMAIN cache : cache[k].ttl # NoTTL

----------------------------------------------------------------------------
\* C21: an access to a registered name on AppModels ends with a bound
\* type, whatever relationships the record types declare; it never runs
\* out of nested __getattr__ calls.
C21_BindingTerminates ==
    (last # NoAccess /\ last.registered) => last.outcome = "type"

----------------------------------------------------------------------------
C22_BindStep ==
    (\E a \in AppIds, n \in RegNames : Access(a, n)) => models' = models

C22_Declared ==
    \A n \in RegNames :
        models[n] # 0 => types[models[n]].app = 0 /\ types[models[n]].base = 0

\* C22: Model.models is changed only by declaring a record type: an access
\* on AppModels, with the factory and resolver calls it makes, leaves every
\* registry entry as it was, so each entry is always a declared type and
\* never a specialization bound to an application.
C22_RegistryFrame == [][C22_BindStep]_vars /\ []C22_Declared

----------------------------------------------------------------------------
(* The aggregates on bounded pools.  A caller without a free connection    *)
(* waits inside `async with app['db'].acquire()` or                        *)
(* `async with app[redis].get()`.  get_sum is wrapped by                   *)
(* method_connect_once outside method_redis_once; get_count is wrapped by  *)
(* method_redis_once only and reaches the database pool through            *)
(* _pg_scalar.                                                             *)

MaxPool == 1    \* connections in the database pool and in the cache pool

IdleAgg == [pc |-> "idle", op |-> "none", ttl |-> 0, count |-> None]

AggKey(t) ==
    IF t.op = "count" THEN CountKey(AggApp, "p", "all")
    ELSE SumKey(AggApp, "p", "x1")

\* Leaving every `async with` of the call: its connections go back.
ReleaseAll(p) ==
    pool' = [db |-> pool.db \ {p}, redis |-> pool.redis \ {p}]

\* get_count(postfix='p', expire=expire) with no connection supplied: the
\* method_redis_once wrapper asks the cache pool first.
pooled_get_count(p, expire) ==
    /\ task[p].pc = "idle"
    /\ task' = [task EXCEPT ![p] =
                  [IdleAgg EXCEPT !.op = "count", !.ttl = expire,
                                  !.pc = "redis_wait"]]
    /\ UNCHANGED <<aggVars, regVars, saveVars, rows, objs, pool, hist>>

\* get_sum(column, where, postfix='p', delay=delay) with no connection
\* supplied: the method_connect_once wrapper asks the database pool first.
pooled_get_sum(p, delay) ==
    /\ task[p].pc = "idle"
    /\ task' = [task EXCEPT ![p] =
                  [IdleAgg EXCEPT !.op = "sum", !.ttl = delay,
                                  !.pc = "db_wait"]]
    /\ UNCHANGED <<aggVars, regVars, saveVars, rows, objs, pool, hist>>

\* async with app[redis].get() as connection: granted when one is free.
redis_acquire(p) ==
    /\ task[p].pc = "redis_wait"
    /\ Cardinality(pool.redis) < MaxPool
    /\ pool' = [pool EXCEPT !.redis = @ \cup {p}]
    /\ task' = [task EXCEPT ![p].pc =
                  IF task[p].op = "count"
                  THEN IF CountBypassesCache(task[p].ttl) THEN "db_wait"
                       ELSE "get"
                  ELSE IF SumReadsCache(task[p].ttl) THEN "get"
                       ELSE "scalar"]
    /\ UNCHANGED <<aggVars, regVars, saveVars, rows, objs, hist>>

\* async with app['db'].acquire() as connection: granted when one is free.
\* For get_sum it is the outer wrapper, for get_count the wrapper of
\* _pg_scalar, entered with connection=None.
db_acquire(p) ==
    /\ task[p].pc = "db_wait"
    /\ Cardinality(pool.db) < MaxPool
    /\ pool' = [pool EXCEPT !.db = @ \cup {p}]
    /\ task' = [task EXCEPT ![p].pc =
                  IF task[p].op = "count" THEN "scalar" ELSE "redis_wait"]
    /\ UNCHANGED <<aggVars, regVars, saveVars, rows, objs, hist>>

\* count = await redis.get(key); a hit returns.
pooled_redis_get(p) ==
    /\ task[p].pc = "get"
    /\ IF CacheHit(redis_get(cache, AggKey(task[p])))
       THEN /\ task' = [task EXCEPT ![p] = IdleAgg]
            /\ ReleaseAll(p)
       ELSE /\ task' = [task EXCEPT ![p].pc =
                          IF task[p].op = "count" THEN "db_wait"
                          ELSE "scalar"]
            /\ UNCHANGED pool
    /\ UNCHANGED <<aggVars, regVars, saveVars, rows, objs, hist>>

\* await connection.scalar(sql) in _pg_scalar.  For get_count the wrapper
\* of _pg_scalar then gives its connection back.
pg_scalar(p) ==
    /\ task[p].pc = "scalar"
    /\ IF task[p].op = "count"
       THEN IF CountBypassesCache(task[p].ttl)
            THEN /\ task' = [task EXCEPT ![p] = IdleAgg]
                 /\ ReleaseAll(p)
            ELSE /\ task' = [task EXCEPT
                               ![p].count = Some(SqlCount(table, "all")),
                               ![p].pc = "set"]
                 /\ pool' = [pool EXCEPT !.db = @ \ {p}]
       ELSE IF SumStores(SqlSum(table, "x1"), task[p].ttl)
            THEN /\ task' = [task EXCEPT
                               ![p].count =
                                   Some(NormalizeSum(SqlSum(table, "x1"))),
                               ![p].pc = "set"]
                 /\ UNCHANGED pool
            ELSE /\ task' = [task EXCEPT ![p] = IdleAgg]
                 /\ ReleaseAll(p)
    /\ UNCHANGED <<aggVars, regVars, saveVars, rows, objs, hist>>

\* await redis.set(key, count)
pooled_redis_set(p) ==
    /\ task[p].pc = "set"
    /\ cache' = redis_set(cache, AggKey(task[p]), The(task[p].count))
    /\ task' = [task EXCEPT ![p].pc = "expire"]
    /\ UNCHANGED <<table, call, regVars, saveVars, rows, objs, pool, hist>>

\* await redis.expire(key, expire); return count
pooled_redis_expire(p) ==
    /\ task[p].pc = "expire"
    /\ cache' = redis_expire(cache, AggKey(task[p]), task[p].ttl)
    /\ task' = [task EXCEPT ![p] = IdleAgg]
    /\ ReleaseAll(p)
    /\ UNCHANGED <<table, call, regVars, saveVars, rows, objs, hist>>

\* Time passes in the cache store while calls are under way.
pooled_tick ==
    /\ \E k \in DOMAIN cache : cache[k].ttl # NoTTL
    /\ cache' = Elapse(cache)
    /\ UNCHANGED <<table, call, regVars, saveVars, extVars>>

InitLock ==
    /\ table \in {[k \in PKs |-> NoRow],
                  [k \in PKs |-> IF k = 1 THEN Row(1, 1) ELSE NoRow]}
    /\ cache = <<>>
    /\ call = [p \in Procs |-> IdleCall]
    /\ RegIdle
    /\ SaveIdle
    /\ rows = <<>>
    /\ objs = <<>>
    /\ hist = <<>>
    /\ task = [p \in Procs |-> IdleAgg]
    /\ pool = [db |-> {}, redis |-> {}]

NextLock ==
    \/ \E p \in Procs, e \in 0..MaxExpire : pooled_get_count(p, e)
    \/ \E p \in Procs, d \in 0..MaxExpire : pooled_get_sum(p, d)
    \/ \E p \in Procs : redis_acquire(p)
    \/ \E p \in Procs : db_acquire(p)
    \/ \E p \in Procs : pooled_redis_get(p)
    \/ \E p \in Procs : pg_scalar(p)
    \/ \E p \in Procs : pooled_redis_set(p)
    \/ \E p \in Procs : pooled_redis_expire(p)
    \/ pooled_tick

SpecLock == InitLock /\ [][NextLock]_vars

\* C23: no reachable state has one call holding a database connection and
\* waiting for a cache-store connection while another holds a cache-store
\* connection and waits for a database connection, with no connection
\* left in either pool.
C23_NoPoolDeadlock ==
    ~ \E p, q \in Procs :
        /\ p # q
        /\ p \in pool.db /\ task[p].pc = "redis_wait"
        /\ q \in pool.redis /\ task[q].pc = "db_wait"
        /\ Cardinality(pool.db) = MaxPool
        /\ Cardinality(pool.redis) = MaxPool

============================================================================
